---- MODULE Spec2Model ----
(***************************************************************************)
(* Verification model of take-minutes (src/minutes): the chunk splitter,   *)
(* the resumable extraction pipeline and the SQLite index writer.          *)
(*                                                                         *)
(* Strings are sequences of one-character strings; a slice text[a:b] of    *)
(* Python is SubSeq(text, a+1, b).  Positions are 0-based as in the code.  *)
(***************************************************************************)
EXTENDS Integers, Sequences, FiniteSets, TLC

VARIABLES
    ct_text,        \* chunk_transcript: argument text
    ct_max_size,    \* chunk_transcript: argument max_size
    ct_overlap,     \* chunk_transcript: argument overlap
    ct_pc,          \* "input" before the call, "done" after it
    ct_chunks,      \* chunk_transcript: the returned list
    st_db,          \* MinutesStore: the database as self.conn sees it
    st_disk,        \* MinutesStore: the committed database (any other reader)
    st_lastrowid,   \* sqlite3_last_insert_rowid of self.conn
    st_up,          \* history: the last upsert_session call and its outcome
    st_last,        \* history: name of the last store operation
    st_ops,         \* number of store operations so far
    st_emb,         \* history: the last store_embeddings call and its outcome
    st_before,      \* history: st_db before the last store operation
    st_ever,        \* history: the ids committed rows of items had before the last
                    \* upsert_session call
    cp_rows,        \* the rows of table chunk_progress
    pt_env,         \* config.max_retries, config.chunk_overlap and the collaborator
    pt_pc,          \* process_transcript: "idle", "single", "loop", "returned", "raised"
                    \* (backend.generate raised), "store_error" (a store method raised),
                    \* "killed"
    pt_run,         \* the arguments of the run and what it computed before the loop
    pt_completed,   \* process_transcript: completed
    pt_results,     \* process_transcript: results
    pt_src,         \* history: for each of results, "resumed" or "extracted"
    pt_i,           \* process_transcript: i
    pt_attempt,     \* extract_structured: attempt
    pt_calls,       \* history: calls of backend.generate in this run
    pt_log,         \* history: the chunk given to each of these calls, in call order
    pt_resp,        \* history: what the last call of backend.generate did
    pt_ret,         \* process_transcript: the returned record
    pt_runs,        \* number of runs started
    mg_results,     \* merge_results: argument results
    mg_pc,          \* "input" before the call, "done" after it
    mg_merged,      \* merge_results: the returned record
    sh_kw,          \* search_hybrid: what self.search_keyword does
    sh_vec,         \* search_hybrid: what self.search_vector does
    sh_limit,       \* search_hybrid: argument limit
    sh_pc,          \* "input", then "merged" (_rrf_merge) or "searched" (search_hybrid)
    sh_merged,      \* _rrf_merge: the returned list
    sh_out,         \* search_hybrid: the returned list, or the exception
    cf_env,         \* MAX_CHUNK_SIZE of the environment, 0 when unset
    cf_cli,         \* --chunk-size of the batch command, 0 when not given
    cf_file_size,   \* process_transcript: argument file_size
    cf_pc,          \* "input" before the configuration is built, "done" after
    cf_config,      \* the Config given to process_transcript
    cf_effective,   \* process_transcript: effective_chunk_size
    bt_step,        \* handle_batch: "off", "scan" before the first session, "extract"
                    \* in _batch_extract, "closed" after store.close()
    bt_outcome,     \* history: how _batch_extract ended for the current session
    bt_prev         \* history: the session of the batch run before and how it ended

ct_vars == <<ct_text, ct_max_size, ct_overlap, ct_pc, ct_chunks>>
st_vars == <<st_db, st_disk, st_lastrowid, st_up, st_last, st_ops, st_emb, st_before,
             st_ever>>

pt_vars == <<cp_rows, pt_env, pt_pc, pt_run, pt_completed, pt_results, pt_src, pt_i,
             pt_attempt, pt_calls, pt_log, pt_resp, pt_ret, pt_runs>>

mg_vars == <<mg_results, mg_pc, mg_merged>>
sh_vars == <<sh_kw, sh_vec, sh_limit, sh_pc, sh_merged, sh_out>>
cf_vars == <<cf_env, cf_cli, cf_file_size, cf_pc, cf_config, cf_effective>>
bt_vars == <<bt_step, bt_outcome, bt_prev>>
fn_vars == <<mg_vars, sh_vars, cf_vars, bt_vars>>

vars == <<ct_vars, st_vars, pt_vars, fn_vars>>

----------------------------------------------------------------------------
(* Bounds *)

MaxTextLen == 30        \* longest text given to chunk_transcript
MaxChunkSize == 16      \* largest max_size given to chunk_transcript
MaxOverlap == 3         \* largest overlap given to chunk_transcript
MaxBreakRun == 3        \* longest run of newlines in a generated text
MaxStoreOps == 5        \* store operations in one behaviour
MaxItemId == 5          \* item ids handed out before the store model stops
MaxRuns == 2            \* runs of process_transcript in one behaviour
MaxRetries == 2         \* largest config.max_retries
MaxPipeOverlap == 1     \* largest config.chunk_overlap of a pipeline run
MaxBadAttempts == 2     \* attempts the collaborator fails on one chunk
MaxResults == 3         \* longest list of records given to merge_results
MaxSearchItems == 3     \* items in the store that is searched
MaxLimit == 3           \* largest limit given to search_hybrid

----------------------------------------------------------------------------
(* Helpers *)

NL == "\n"

Min(a, b) == IF a <= b THEN a ELSE b
Max(a, b) == IF a >= b THEN a ELSE b
SetMax(S) == CHOOSE x \in S : \A y \in S : y <= x

RECURSIVE SortedSeq(_)
\* The elements of a finite set of integers in increasing order.
SortedSeq(S) ==
    IF S = {} THEN <<>>
    ELSE LET m == CHOOSE x \in S : \A y \in S : x <= y
         IN  <<m>> \o SortedSeq(S \ {m})

\* ceil(a / b) for a >= 0, b > 0
CeilDiv(a, b) == (a + b - 1) \div b

\* text[a:b] with 0 <= a <= b <= len(text)
Slice(text, a, b) == SubSeq(text, a + 1, b)

\* A text of n characters whose characters p .. p+w-1 (0-based) are newlines.
TextWithBreak(n, p, w) ==
    [i \in 1..n |-> IF (i - 1) >= p /\ (i - 1) < p + w THEN NL ELSE "a"]

----------------------------------------------------------------------------
(* extractor_chunking.py: chunk_transcript *)

\* text.rfind("\n\n", lo, hi): the highest 0-based p with lo <= p, p+2 <= hi
\* and text[p] = text[p+1] = "\n"; -1 when there is none.
rfind_para(text, lo, hi) ==
    LET found == {p \in lo..(hi - 2) : text[p + 1] = NL /\ text[p + 2] = NL}
    IN  IF found = {} THEN -1 ELSE SetMax(found)

\* A chunk is text[start:end]; start and end are kept with the string so
\* that the position of the slice in the text can be stated.
Chunk(text, start, end) ==
    [start |-> start, end |-> end, text |-> Slice(text, start, end)]

\* The end the loop body chooses for the chunk that starts at start.
chunk_end(text, max_size, start) ==
    LET end0 == Min(start + max_size, Len(text))
        search_start == Max(start, end0 - (max_size \div 4))
        para_break == rfind_para(text, search_start, end0)
    IN  IF end0 < Len(text) /\ para_break # -1 /\ para_break > start
        THEN para_break + 2
        ELSE end0

\* Same, with the overlap added instead of subtracted.
chunk_next_start_gap(end, overlap, start) ==
    LET new_start == end + overlap
    IN  IF new_start <= start THEN end ELSE new_start

\* Same, forcing progress by one character instead of jumping to end.
chunk_next_start_slow(end, overlap, start) ==
    LET new_start == end - overlap
    IN  IF new_start <= start THEN start + 1 ELSE new_start

\* The start of the next chunk: end - overlap, or end when that would not
\* move forward.
chunk_next_start(end, overlap, start) ==
    LET new_start == end - overlap
    IN  IF new_start <= start THEN end ELSE new_start

RECURSIVE chunk_loop(_, _, _, _, _)
\* The while loop of chunk_transcript, from position start with the chunks
\* collected so far.
chunk_loop(text, max_size, overlap, start, chunks) ==
    IF ~(start < Len(text))
    THEN chunks
    ELSE LET end == chunk_end(text, max_size, start)
         IN  chunk_loop(text, max_size, overlap,
                        chunk_next_start(end, overlap, start),
                        Append(chunks, Chunk(text, start, end)))

\* Same, without the early return for a text that fits in one chunk.
chunk_transcript_noshort(text, max_size, overlap) ==
    LET chunks == chunk_loop(text, max_size, overlap, 0, <<>>)
    IN  IF chunks # <<>> THEN chunks ELSE <<Chunk(text, 0, Len(text))>>

chunk_transcript(text, max_size, overlap) ==
    IF Len(text) <= max_size
    THEN <<Chunk(text, 0, Len(text))>>
    ELSE LET chunks == chunk_loop(text, max_size, overlap, 0, <<>>)
         IN  IF chunks # <<>> THEN chunks ELSE <<Chunk(text, 0, Len(text))>>

----------------------------------------------------------------------------
(* models.py: the extraction record *)

\* Python's None, as a text value and as the category argument of a search
NoneVal == <<"None">>
NoCategory == "None"

Decision(summary, owner, rationale) ==
    [summary |-> summary, owner |-> owner, rationale |-> rationale, date |-> <<>>]
Idea(title, description) ==
    [title |-> title, description |-> description, category |-> <<"s">>]
Question(text, context, owner) ==
    [text |-> text, context |-> context, owner |-> owner]
ActionItem(description, owner) ==
    [description |-> description, owner |-> owner, deadline |-> <<>>]
Concept(name, definition) ==
    [name |-> name, definition |-> definition]
Term(term, definition) ==
    [term |-> term, definition |-> definition, context |-> <<>>]

\* ExtractionResult(): every list empty, tldr ""
ExtractionResult ==
    [decisions |-> <<>>, ideas |-> <<>>, questions |-> <<>>,
     action_items |-> <<>>, concepts |-> <<>>, terms |-> <<>>, tldr |-> <<>>]

----------------------------------------------------------------------------
(* Text helpers: str.lower(), the "in" test on strings *)

UpperLetters == <<"A", "B", "C", "D", "E", "F", "G", "H", "I", "J", "K", "L", "M",
                  "N", "O", "P", "Q", "R", "S", "T", "U", "V", "W", "X", "Y", "Z">>
LowerLetters == <<"a", "b", "c", "d", "e", "f", "g", "h", "i", "j", "k", "l", "m",
                  "n", "o", "p", "q", "r", "s", "t", "u", "v", "w", "x", "y", "z">>

IsUpper(c) == \E n \in 1..26 : UpperLetters[n] = c
IsLower(c) == \E n \in 1..26 : LowerLetters[n] = c
LowerChar(c) ==
    IF IsUpper(c) THEN LowerLetters[CHOOSE n \in 1..26 : UpperLetters[n] = c] ELSE c

\* value.lower()
Lower(s) == [n \in 1..Len(s) |-> LowerChar(s[n])]

\* value in text
IsSubstring(value, text) ==
    \E p \in 0..(Len(text) - Len(value)) : Slice(text, p, p + Len(value)) = value

----------------------------------------------------------------------------
(* difflib.SequenceMatcher(None, a, b).ratio() for strings shorter than    *)
(* 200 characters (no junk, no autojunk)                                   *)

RECURSIVE match_len(_, _, _, _, _, _)
\* Length of the longest common run a[i:i+k] = b[j:j+k] with i+k <= ahi and
\* j+k <= bhi.
match_len(a, b, i, j, ahi, bhi) ==
    IF i < ahi /\ j < bhi /\ a[i + 1] = b[j + 1]
    THEN 1 + match_len(a, b, i + 1, j + 1, ahi, bhi)
    ELSE 0

\* find_longest_match(alo, ahi, blo, bhi): <<i, j, k>> of the longest block,
\* the one starting earliest in a, then earliest in b; <<alo, blo, 0>> when
\* nothing matches.
find_longest_match(a, b, alo, ahi, blo, bhi) ==
    LET pairs == {<<i, j>> : i \in alo..(ahi - 1), j \in blo..(bhi - 1)}
        size(p) == match_len(a, b, p[1], p[2], ahi, bhi)
        best == IF pairs = {} THEN 0 ELSE SetMax({size(p) : p \in pairs})
    IN  IF best = 0
        THEN <<alo, blo, 0>>
        ELSE LET top == {p \in pairs : size(p) = best}
                 i == CHOOSE x \in {p[1] : p \in top} : \A p \in top : x <= p[1]
                 j == CHOOSE y \in {p[2] : p \in {q \in top : q[1] = i}} :
                          \A p \in {q \in top : q[1] = i} : y <= p[2]
             IN  <<i, j, best>>

RECURSIVE matching_size(_, _, _, _, _, _)
\* Sum of the sizes of get_matching_blocks(): the longest block, then the
\* same to its left and to its right.
matching_size(a, b, alo, ahi, blo, bhi) ==
    LET m == find_longest_match(a, b, alo, ahi, blo, bhi)
    IN  IF m[3] = 0
        THEN 0
        ELSE m[3] + matching_size(a, b, alo, m[1], blo, m[2])
                  + matching_size(a, b, m[1] + m[3], ahi, m[2] + m[3], bhi)

\* Same, with a strict comparison.
ratio_at_least_strict(a, b, num, den) ==
    IF Len(a) + Len(b) = 0
    THEN TRUE
    ELSE 2 * matching_size(a, b, 0, Len(a), 0, Len(b)) * den > num * (Len(a) + Len(b))

\* SequenceMatcher(None, a, b).ratio() >= num/den, where ratio() is
\* 2.0 * matches / (len(a) + len(b)), and 1.0 for two empty strings.
ratio_at_least(a, b, num, den) ==
    IF Len(a) + Len(b) = 0
    THEN TRUE
    ELSE 2 * matching_size(a, b, 0, Len(a), 0, Len(b)) * den >= num * (Len(a) + Len(b))

----------------------------------------------------------------------------
(* extractor_dedup.py: merge_results *)

\* threshold: float = 0.8, as the fraction ThresholdNum / ThresholdDen
ThresholdNum == 4
ThresholdDen == 5

RECURSIVE concat_lists(_, _)
\* [x for r in results for x in r.<field>]
concat_lists(results, field) ==
    IF results = <<>> THEN <<>>
    ELSE Head(results)[field] \o concat_lists(Tail(results), field)

RECURSIVE dedup_similarity_loop(_, _, _)
dedup_similarity_loop(items, attr, kept) ==
    IF items = <<>> THEN kept
    ELSE LET item == Head(items)
             is_duplicate == \E n \in 1..Len(kept) :
                 ratio_at_least(item[attr], kept[n][attr], ThresholdNum, ThresholdDen)
         IN  dedup_similarity_loop(Tail(items), attr,
                                   IF is_duplicate THEN kept ELSE Append(kept, item))

\* Same, without the duplicate test.
deduplicate_by_similarity_all(items, attr) == items

\* _deduplicate_by_similarity(items, attr)
deduplicate_by_similarity(items, attr) == dedup_similarity_loop(items, attr, <<>>)

RECURSIVE cross_category_loop_cased(_, _, _, _)
\* The items whose text, as it is, has ratio >= threshold with no reference text
cross_category_loop_cased(items, items_attr, reference, reference_attr) ==
    IF items = <<>> THEN <<>>
    ELSE LET is_dup == \E n \in 1..Len(reference) :
                 ratio_at_least(Head(items)[items_attr], reference[n][reference_attr],
                                ThresholdNum, ThresholdDen)
         IN  (IF is_dup THEN <<>> ELSE <<Head(items)>>)
             \o cross_category_loop_cased(Tail(items), items_attr, reference, reference_attr)

RECURSIVE cross_category_loop(_, _, _, _, _)
cross_category_loop(items, items_attr, reference, reference_attr, kept) ==
    IF items = <<>> THEN kept
    ELSE LET item == Head(items)
             is_dup == \E n \in 1..Len(reference) :
                 ratio_at_least(Lower(item[items_attr]), Lower(reference[n][reference_attr]),
                                ThresholdNum, ThresholdDen)
         IN  cross_category_loop(Tail(items), items_attr, reference, reference_attr,
                                 IF is_dup THEN kept ELSE Append(kept, item))

\* Same, comparing the texts without .lower().
cross_category_dedup_cased(items, items_attr, reference, reference_attr) ==
    IF items = <<>> \/ reference = <<>>
    THEN items
    ELSE cross_category_loop_cased(items, items_attr, reference, reference_attr)

\* _cross_category_dedup(items, items_attr, reference, reference_attr)
cross_category_dedup(items, items_attr, reference, reference_attr) ==
    IF items = <<>> \/ reference = <<>>
    THEN items
    ELSE cross_category_loop(items, items_attr, reference, reference_attr, <<>>)

RECURSIVE dedup_exact_loop(_, _, _, _)
dedup_exact_loop(items, attr, seen, kept) ==
    IF items = <<>> THEN kept
    ELSE LET item == Head(items)
         IN  IF item[attr] \notin seen
             THEN dedup_exact_loop(Tail(items), attr, seen \cup {item[attr]}, Append(kept, item))
             ELSE dedup_exact_loop(Tail(items), attr, seen, kept)

\* Same, with the keys compared in lower case.
deduplicate_by_exact_attr_nocase(items, attr) ==
    dedup_exact_loop([n \in 1..Len(items) |-> [items[n] EXCEPT ![attr] = Lower(@)]],
                     attr, {}, <<>>)

\* _deduplicate_by_exact_attr(items, attr)
deduplicate_by_exact_attr(items, attr) == dedup_exact_loop(items, attr, {}, <<>>)

\* Same, with the last of the longest.
longest_tldr_last(results) ==
    LET idx == {n \in 1..Len(results) : results[n].tldr # <<>>}
    IN  IF idx = {} THEN <<>>
        ELSE LET best == SetMax({Len(results[n].tldr) : n \in idx})
             IN  results[SetMax({n \in idx : Len(results[n].tldr) = best})].tldr

\* max(tldrs, key=len) if tldrs else "", tldrs = [r.tldr for r in results
\* if r.tldr]: the first of the longest
longest_tldr(results) ==
    LET idx == {n \in 1..Len(results) : results[n].tldr # <<>>}
    IN  IF idx = {} THEN <<>>
        ELSE LET best == SetMax({Len(results[n].tldr) : n \in idx})
                 first == CHOOSE n \in idx :
                            /\ Len(results[n].tldr) = best
                            /\ \A k \in idx : Len(results[k].tldr) = best => n <= k
             IN  results[first].tldr

\* merge_results(results)
merge_results(results) ==
    IF results = <<>>
    THEN ExtractionResult
    ELSE LET decisions == deduplicate_by_similarity(concat_lists(results, "decisions"), "summary")
             ideas == deduplicate_by_similarity(concat_lists(results, "ideas"), "title")
             questions == deduplicate_by_similarity(concat_lists(results, "questions"), "text")
             action_items == deduplicate_by_similarity(concat_lists(results, "action_items"),
                                                       "description")
         IN  [decisions |-> decisions,
              ideas |-> cross_category_dedup(ideas, "title", decisions, "summary"),
              questions |-> questions,
              action_items |-> cross_category_dedup(action_items, "description",
                                                    decisions, "summary"),
              concepts |-> deduplicate_by_exact_attr(concat_lists(results, "concepts"), "name"),
              terms |-> deduplicate_by_exact_attr(concat_lists(results, "terms"), "term"),
              tldr |-> longest_tldr(results)]

----------------------------------------------------------------------------
(* store.py: MinutesStore over SQLite *)

\* The tables after _init_schema on a new file.  seq is the AUTOINCREMENT
\* counter of items (sqlite_sequence), which is part of the database and is
\* rolled back with it.
EmptyDb ==
    [sessions |-> {}, items |-> {}, fts |-> {}, emb |-> {}, seq |-> 0]

ItemRow(category, content, detail, owner, date) ==
    [category |-> category, content |-> content, detail |-> detail,
     owner |-> owner, date |-> date]

\* items_to_insert of upsert_session: the rows of the record in the fixed
\* order decision, idea, question, action_item, concept, term.
items_to_insert(result) ==
    [i \in 1..Len(result.decisions) |->
        ItemRow("decision", result.decisions[i].summary, result.decisions[i].rationale,
                result.decisions[i].owner, result.decisions[i].date)]
    \o [i \in 1..Len(result.ideas) |->
        ItemRow("idea", result.ideas[i].title, result.ideas[i].description, NoneVal, NoneVal)]
    \o [i \in 1..Len(result.questions) |->
        ItemRow("question", result.questions[i].text, result.questions[i].context,
                result.questions[i].owner, NoneVal)]
    \o [i \in 1..Len(result.action_items) |->
        ItemRow("action_item", result.action_items[i].description, NoneVal,
                result.action_items[i].owner, result.action_items[i].deadline)]
    \o [i \in 1..Len(result.concepts) |->
        ItemRow("concept", result.concepts[i].name, result.concepts[i].definition, NoneVal, NoneVal)]
    \o [i \in 1..Len(result.terms) |->
        ItemRow("term", result.terms[i].term, result.terms[i].definition, NoneVal, NoneVal)]

\* Same, leaving the old rows of the session in place.
delete_old_items_keep(db, session_id) == db

\* SELECT id FROM items WHERE session_id = ?; DELETE FROM items_fts WHERE
\* rowid = old_id for each; DELETE FROM items WHERE session_id = ? (the
\* foreign key with ON DELETE CASCADE removes the embeddings of the items).
delete_old_items(db, session_id) ==
    LET old_ids == {i.id : i \in {j \in db.items : j.session_id = session_id}}
    IN  [db EXCEPT !.fts = {f \in @ : f.rowid \notin old_ids},
                   !.items = {i \in @ : i.session_id # session_id},
                   !.emb = {e \in @ : e.item_id \notin old_ids}]

\* Same, with the embeddings of every item removed.
replace_session_clear(db, session_id, file_hash, result) ==
    LET kept == {r \in db.sessions : r.id # session_id}
        rowid == IF kept = {} THEN 1 ELSE SetMax({r.rowid : r \in kept}) + 1
    IN  [db EXCEPT !.sessions = kept \cup
                        {[id |-> session_id, rowid |-> rowid, file_hash |-> file_hash,
                          decisions |-> Len(result.decisions),
                          concepts |-> Len(result.concepts),
                          tldr |-> result.tldr]},
                   !.items = {i \in @ : i.session_id # session_id},
                   !.emb = {}]

\* INSERT OR REPLACE INTO sessions: a row with the same id is deleted (with
\* the cascade to its items and their embeddings, not to items_fts) and the
\* new row gets the next rowid.
replace_session(db, session_id, file_hash, result) ==
    LET kept == {r \in db.sessions : r.id # session_id}
        gone == {i.id : i \in {j \in db.items : j.session_id = session_id}}
        rowid == IF kept = {} THEN 1 ELSE SetMax({r.rowid : r \in kept}) + 1
    IN  [db EXCEPT !.sessions = kept \cup
                        {[id |-> session_id, rowid |-> rowid, file_hash |-> file_hash,
                          decisions |-> Len(result.decisions),
                          concepts |-> Len(result.concepts),
                          tldr |-> result.tldr]},
                   !.items = {i \in @ : i.session_id # session_id},
                   !.emb = {e \in @ : e.item_id \notin gone}]

\* detail or ""
detail_or_empty(detail) == IF detail = NoneVal \/ detail = <<>> THEN <<>> ELSE detail

\* Same, for INTEGER PRIMARY KEY without AUTOINCREMENT: one more than the
\* largest id in the table.
next_item_id_max(db) ==
    IF db.items = {} THEN 1 ELSE SetMax({i.id : i \in db.items}) + 1

\* id INTEGER PRIMARY KEY AUTOINCREMENT: one more than the largest id the
\* table ever held, which sqlite_sequence records
next_item_id(db) == db.seq + 1

\* Same, with no INSERT INTO items_fts.
insert_items_nofts(db, lastrowid, session_id, rows) ==
    LET firsts == {n \in 1..Len(rows) :
                      \A m \in 1..(n - 1) :
                          ~(rows[m].category = rows[n].category
                            /\ rows[m].content = rows[n].content)}
    IN  [db |-> [db EXCEPT !.seq = @ + Len(rows),
                           !.items = @ \cup
                               {[id |-> db.seq + n, session_id |-> session_id,
                                 category |-> rows[n].category, content |-> rows[n].content,
                                 detail |-> rows[n].detail, owner |-> rows[n].owner,
                                 date |-> rows[n].date] : n \in firsts}],
         lastrowid |-> db.seq + Len(rows),
         raised |-> FALSE]

RECURSIVE insert_items(_, _, _, _)
\* The loop "for category, content, ... in items_to_insert" of
\* upsert_session.  INSERT OR IGNORE skips a row whose (session_id, category,
\* content) exists; it still advances the AUTOINCREMENT counter and leaves
\* the connection's last insert rowid as it was, so cursor.lastrowid is then
\* the rowid of the previous insert.  INSERT INTO items_fts with a rowid that
\* is already in items_fts raises IntegrityError, which leaves the loop and
\* the function with the transaction open.
insert_items(db, lastrowid, session_id, rows) ==
    IF rows = <<>>
    THEN [db |-> db, lastrowid |-> lastrowid, raised |-> FALSE]
    ELSE LET r == Head(rows)
             ignored == \E i \in db.items :
                            /\ i.session_id = session_id
                            /\ i.category = r.category
                            /\ i.content = r.content
             new_id == next_item_id(db)
             db1 == IF ignored
                    THEN [db EXCEPT !.seq = new_id]
                    ELSE [db EXCEPT !.seq = new_id,
                                    !.items = @ \cup
                                        {[id |-> new_id, session_id |-> session_id,
                                          category |-> r.category, content |-> r.content,
                                          detail |-> r.detail, owner |-> r.owner,
                                          date |-> r.date]}]
             cursor_lastrowid == IF ignored THEN lastrowid ELSE new_id
         IN  IF cursor_lastrowid # 0
             THEN IF \E f \in db1.fts : f.rowid = cursor_lastrowid
                  THEN [db |-> db1, lastrowid |-> cursor_lastrowid, raised |-> TRUE]
                  ELSE insert_items(
                           [db1 EXCEPT !.fts = @ \cup
                               {[rowid |-> cursor_lastrowid, content |-> r.content,
                                 detail |-> detail_or_empty(r.detail)]}],
                           cursor_lastrowid, session_id, Tail(rows))
             ELSE insert_items(db1, cursor_lastrowid, session_id, Tail(rows))

\* upsert_session up to, not including, self.conn.commit(): the database the
\* connection sees, its last insert rowid, and whether an exception left the
\* function before the commit.
upsert_session(db, session_id, file_hash, result) ==
    LET db1 == delete_old_items(db, session_id)
        db2 == replace_session(db1, session_id, file_hash, result)
        row == CHOOSE r \in db2.sessions : r.id = session_id
    IN  insert_items(db2, row.rowid, session_id, items_to_insert(result))

\* is_indexed(session_id, file_hash)
is_indexed(db, session_id, file_hash) ==
    \E r \in db.sessions :
        /\ r.id = session_id
        /\ (file_hash = <<>> \/ r.file_hash = file_hash)

\* search_keyword: the items joined to the items_fts rows that MATCH the
\* query, with the optional category filter.  A query matches a row when it
\* equals the row's content or detail (one token per field).
search_keyword(db, query, category) ==
    {i \in db.items :
        /\ \E f \in db.fts :
              /\ f.rowid = i.id
              /\ (f.content = query \/ f.detail = query)
        /\ (category = NoCategory \/ i.category = category)}

\* get_item: items JOIN sessions
get_item(db, item_id) ==
    {i \in db.items : i.id = item_id /\ \E r \in db.sessions : r.id = i.session_id}

\* search_vector: the items that have an embedding of the model, with the
\* optional category filter, looked up through get_item.
search_vector(db, category, model) ==
    {i \in db.items :
        /\ \E e \in db.emb : e.item_id = i.id /\ e.model = model
        /\ (category = NoCategory \/ i.category = category)
        /\ get_item(db, i.id) # {}}

\* get_unembedded_items: items LEFT JOIN item_embeddings ... WHERE e.item_id
\* IS NULL
get_unembedded_items(db, model) ==
    {i \in db.items : ~\E e \in db.emb : e.item_id = i.id /\ e.model = model}

\* Same, with INSERT OR IGNORE: a row of the key keeps its vector.
store_embeddings_ignore(db, item_ids, embedding, model) ==
    [db |-> [db EXCEPT !.emb = @ \cup
                {[item_id |-> item_ids[n], model |-> model, embedding |-> embedding] :
                    n \in {k \in 1..Len(item_ids) :
                              ~\E e \in db.emb : e.item_id = item_ids[k] /\ e.model = model}}],
     raised |-> FALSE]

RECURSIVE store_embeddings(_, _, _, _)
\* store_embeddings up to the commit: INSERT OR REPLACE per (item_id, model);
\* the foreign key on item_id raises IntegrityError for an id that is not in
\* items.  item_ids is a sequence.
store_embeddings(db, item_ids, embedding, model) ==
    IF item_ids = <<>>
    THEN [db |-> db, raised |-> FALSE]
    ELSE IF ~\E i \in db.items : i.id = Head(item_ids)
         THEN [db |-> db, raised |-> TRUE]
         ELSE store_embeddings(
                  [db EXCEPT !.emb =
                      {e \in @ : ~(e.item_id = Head(item_ids) /\ e.model = model)}
                      \cup {[item_id |-> Head(item_ids), model |-> model,
                             embedding |-> embedding]}],
                  Tail(item_ids), embedding, model)

----------------------------------------------------------------------------
(* store.py: _rrf_merge and search_hybrid.  A score is a fraction           *)
(* <<numerator, denominator>> with a positive denominator.                  *)

RatAdd(a, b) == <<a[1] * b[2] + b[1] * a[2], a[2] * b[2]>>
RatEq(a, b) == a[1] * b[2] = b[1] * a[2]
RatLess(a, b) == a[1] * b[2] < b[1] * a[2]

\* k: int = 60
RrfK == 60

RECURSIVE enumerate_lists(_, _)
\* The items of the lists with their ranks, counted from start, in the order
\* the loops visit them
enumerate_lists(lists, start) ==
    IF lists = <<>> THEN <<>>
    ELSE [n \in 1..Len(Head(lists)) |-> [item |-> Head(lists)[n], rank |-> n - 1 + start]]
         \o enumerate_lists(Tail(lists), start)

\* Same, with ranks counted from 0.
rrf_entries_from_zero(ranked_lists) == enumerate_lists(ranked_lists, 0)

\* for ranked_list in ranked_lists: for rank, item in enumerate(ranked_list,
\* start=1)
rrf_entries(ranked_lists) == enumerate_lists(ranked_lists, 1)

RECURSIVE rrf_maps(_, _, _, _, _)
\* The body of the loops: score_map, item_map and the insertion order of
\* their keys after the given entries
rrf_maps(entries, k, order, score_map, item_map) ==
    IF entries = <<>>
    THEN [order |-> order, score_map |-> score_map, item_map |-> item_map]
    ELSE LET item == Head(entries).item
             item_id == item.id
             reciprocal == <<1, k + Head(entries).rank>>
         IN  IF item_id \notin DOMAIN score_map
             THEN rrf_maps(Tail(entries), k, Append(order, item_id),
                           (item_id :> RatAdd(<<0, 1>>, reciprocal)) @@ score_map,
                           (item_id :> item) @@ item_map)
             ELSE rrf_maps(Tail(entries), k, order,
                           [score_map EXCEPT ![item_id] = RatAdd(@, reciprocal)],
                           [item_map EXCEPT ![item_id] = item @@ @])

RECURSIVE sorted_ascending(_, _)
\* Same, with the lowest score first.
sorted_ascending(order, score_map) ==
    IF order = <<>> THEN <<>>
    ELSE LET n == CHOOSE m \in 1..Len(order) :
                    /\ \A j \in 1..Len(order) : ~RatLess(score_map[order[j]], score_map[order[m]])
                    /\ \A j \in 1..(m - 1) : RatLess(score_map[order[m]], score_map[order[j]])
         IN  <<order[n]>>
             \o sorted_ascending([j \in 1..(Len(order) - 1) |->
                                      IF j < n THEN order[j] ELSE order[j + 1]], score_map)

RECURSIVE sorted_results(_, _)
\* sorted(score_map.items(), key=lambda x: x[1], reverse=True): the highest
\* score first, equal scores in insertion order (the sort is stable)
sorted_results(order, score_map) ==
    IF order = <<>> THEN <<>>
    ELSE LET n == CHOOSE m \in 1..Len(order) :
                    /\ \A j \in 1..Len(order) : ~RatLess(score_map[order[m]], score_map[order[j]])
                    /\ \A j \in 1..(m - 1) : RatLess(score_map[order[j]], score_map[order[m]])
         IN  <<order[n]>>
             \o sorted_results([j \in 1..(Len(order) - 1) |->
                                   IF j < n THEN order[j] ELSE order[j + 1]], score_map)

\* _rrf_merge(ranked_lists, k)
rrf_merge(ranked_lists, k) ==
    LET maps == rrf_maps(rrf_entries(ranked_lists), k, <<>>, <<>>, <<>>)
        ids == sorted_results(maps.order, maps.score_map)
    IN  [n \in 1..Len(ids) |->
            ("rrf_score" :> maps.score_map[ids[n]]) @@ maps.item_map[ids[n]]]

\* dict(row) of get_item: the item's columns and, from its session,
\* session_file
item_with_session(db, item_id) ==
    LET i == CHOOSE x \in get_item(db, item_id) : TRUE
        r == CHOOSE x \in db.sessions : x.id = i.session_id
    IN  ("session_file" :> r.id) @@ i

\* Same, with all of merged.
enrich_all(db, merged, limit) ==
    [n \in 1..Len(merged) |->
        IF "session_file" \notin DOMAIN merged[n]
        THEN IF get_item(db, merged[n].id) # {}
             THEN ("rrf_score" :> merged[n].rrf_score) @@ item_with_session(db, merged[n].id)
             ELSE merged[n]
        ELSE merged[n]]

\* The loop "for item in merged[:limit]" of search_hybrid
enrich(db, merged, limit) ==
    [n \in 1..Min(limit, Len(merged)) |->
        IF "session_file" \notin DOMAIN merged[n]
        THEN IF get_item(db, merged[n].id) # {}
             THEN ("rrf_score" :> merged[n].rrf_score) @@ item_with_session(db, merged[n].id)
             ELSE merged[n]
        ELSE merged[n]]

\* ranked_lists of search_hybrid: kw and vec say what search_keyword and
\* search_vector do, return a list ("ok") or raise ("raise"); vec is "none"
\* when query_embedding is None.  Only a non-empty list is appended.
hybrid_ranked_lists(kw, vec) ==
    (IF kw.kind = "ok" /\ kw.items # <<>> THEN <<kw.items>> ELSE <<>>)
    \o (IF vec.kind = "ok" /\ vec.items # <<>> THEN <<vec.items>> ELSE <<>>)

\* Same, without the try around the vector search.
search_hybrid_notry(db, kw, vec, limit) ==
    IF vec.kind = "raise"
    THEN [raised |-> TRUE, items |-> <<>>]
    ELSE IF hybrid_ranked_lists(kw, vec) = <<>>
    THEN [raised |-> FALSE, items |-> <<>>]
    ELSE [raised |-> FALSE,
          items |-> enrich(db, rrf_merge(hybrid_ranked_lists(kw, vec), RrfK), limit)]

\* search_hybrid(query, query_embedding, category, limit, model)
search_hybrid(db, kw, vec, limit) ==
    IF hybrid_ranked_lists(kw, vec) = <<>>
    THEN [raised |-> FALSE, items |-> <<>>]
    ELSE [raised |-> FALSE,
          items |-> enrich(db, rrf_merge(hybrid_ranked_lists(kw, vec), RrfK), limit)]

----------------------------------------------------------------------------
(* extractor_cleanup.py: cleanup_result, for field values that are single  *)
(* words of ASCII letters (or empty)                                       *)

Wuser == <<"u", "s", "e", "r">>
Wassistant == <<"a", "s", "s", "i", "s", "t", "a", "n", "t">>
Wteam == <<"t", "e", "a", "m">>
Wlead == <<"l", "e", "a", "d">>
Wgroup == <<"g", "r", "o", "u", "p">>
Wna == <<"n", "a">>
Wno == <<"n", "o">>
Wnone == <<"n", "o", "n", "e">>
Wtbd == <<"t", "b", "d">>

\* The words of _BAD_OWNER_RE used by the model's inputs
BadOwnerWords == {Wteam, Wlead, Wgroup}
\* The one-word values matched by _FILLER_PATTERNS used by the model's inputs
FillerWords == {Wna, Wno, Wnone, Wtbd}

\* _VALID_OWNER_RE on one word: "", "user", "assistant" or Capitalised
valid_owner(value) ==
    \/ value = <<>>
    \/ value = Wuser
    \/ value = Wassistant
    \/ /\ Len(value) >= 2
       /\ IsUpper(value[1])
       /\ \A n \in 2..Len(value) : IsLower(value[n])

clean_owner(value) ==
    IF value = <<>> THEN <<>>
    ELSE IF valid_owner(value) THEN value
    ELSE IF Lower(value) \in BadOwnerWords THEN <<>>
    ELSE IF value = Lower(value) THEN <<>>
    ELSE value

clean_filler(value) ==
    IF value = <<>> THEN <<>>
    ELSE IF Lower(value) \in FillerWords THEN <<>>
    ELSE value

\* One word: it counts when it has at least 4 characters, and is grounded
\* when its lower case occurs in the lower-cased transcript.
clean_ungrounded(value, transcript) ==
    IF value = <<>> THEN <<>>
    ELSE IF Len(value) < 4 THEN value
    ELSE IF ~IsSubstring(Lower(value), Lower(transcript)) THEN <<>>
    ELSE value

clean_date(value, transcript) ==
    IF value = <<>> THEN <<>>
    ELSE IF IsSubstring(value, transcript) THEN value ELSE <<>>

\* cleanup_result(result, transcript)
cleanup_result(result, transcript) ==
    [result EXCEPT
        !.decisions = [n \in 1..Len(@) |->
            [@[n] EXCEPT
                !.owner = clean_owner(@),
                !.rationale = IF transcript # <<>>
                              THEN clean_ungrounded(clean_filler(@), transcript)
                              ELSE clean_filler(@),
                !.date = IF transcript # <<>> THEN clean_date(@, transcript) ELSE @]],
        !.questions = [n \in 1..Len(@) |->
            [@[n] EXCEPT
                !.owner = clean_owner(@),
                !.context = IF transcript # <<>>
                            THEN clean_ungrounded(clean_filler(@), transcript)
                            ELSE clean_filler(@)]],
        !.action_items = [n \in 1..Len(@) |->
            [@[n] EXCEPT
                !.owner = clean_owner(@),
                !.deadline = IF transcript # <<>> THEN clean_date(@, transcript) ELSE @]]]

----------------------------------------------------------------------------
(* config.py: Config.get_chunk_size *)

\* The thresholds of DEFAULT_CHUNK_TIERS; the last tier has threshold
\* math.inf.  Config.chunk_tiers is a field of Config: the model runs with
\* the default thresholds and chunk sizes of a few characters in place of
\* 12_000, 18_000, 24_000, 24_000.
Tier1Bytes == 1000000
Tier2Bytes == 10000000
Tier3Bytes == 50000000
chunk_tiers ==
    <<[inf |-> FALSE, threshold |-> Tier1Bytes, chunk_size |-> 2],
      [inf |-> FALSE, threshold |-> Tier2Bytes, chunk_size |-> 3],
      [inf |-> FALSE, threshold |-> Tier3Bytes, chunk_size |-> 4],
      [inf |-> TRUE, threshold |-> 0, chunk_size |-> 4]>>

\* Config.get_chunk_size(file_size_bytes)
get_chunk_size(config, file_size_bytes) ==
    IF config.chunk_size_override
    THEN config.max_chunk_size
    ELSE LET hit == {n \in 1..Len(config.chunk_tiers) :
                        \/ config.chunk_tiers[n].inf
                        \/ file_size_bytes < config.chunk_tiers[n].threshold}
         IN  IF hit # {}
             THEN config.chunk_tiers[CHOOSE n \in hit : \A k \in hit : n <= k].chunk_size
             ELSE config.chunk_tiers[Len(config.chunk_tiers)].chunk_size

\* effective_chunk_size of process_transcript
effective_chunk_size(config, file_size) ==
    IF file_size # 0 THEN get_chunk_size(config, file_size) ELSE config.max_chunk_size

\* DEFAULT_CHUNK_TIERS with its chunk sizes in characters
DEFAULT_CHUNK_TIERS ==
    <<[inf |-> FALSE, threshold |-> Tier1Bytes, chunk_size |-> 12000],
      [inf |-> FALSE, threshold |-> Tier2Bytes, chunk_size |-> 18000],
      [inf |-> FALSE, threshold |-> Tier3Bytes, chunk_size |-> 24000],
      [inf |-> TRUE, threshold |-> 0, chunk_size |-> 24000]>>

\* load_config: max_chunk_size = int(os.getenv("MAX_CHUNK_SIZE", "12000"));
\* chunk_size_override and chunk_tiers keep the defaults of the dataclass.
\* env is the value of MAX_CHUNK_SIZE, 0 when the variable is not set.
load_config(env) ==
    [max_chunk_size |-> IF env # 0 THEN env ELSE 12000,
     chunk_size_override |-> FALSE,
     chunk_tiers |-> DEFAULT_CHUNK_TIERS]

\* run_batch: config = load_config(); if chunk_size: max_chunk_size and
\* chunk_size_override are set.  chunk_size is 0 when --chunk-size is absent.
batch_config(env, chunk_size) ==
    IF chunk_size # 0
    THEN [load_config(env) EXCEPT !.max_chunk_size = chunk_size,
                                  !.chunk_size_override = TRUE]
    ELSE load_config(env)

----------------------------------------------------------------------------
(* The chunk progress store: get_chunk_progress, save_chunk_result and     *)
(* clear_chunk_progress over the table chunk_progress of store_schema.py   *)

ResultFields == <<"decisions", "ideas", "questions", "action_items", "concepts", "terms", "tldr">>

\* The record as JSON text: the fields in order, each with its value.
to_json(result) == [n \in 1..Len(ResultFields) |-> <<ResultFields[n], result[ResultFields[n]]>>]

\* ExtractionResult(**json.loads(result_json)): each field from the JSON
\* object, the default of the model for a field that is not in it.
from_json(json) ==
    [f \in {ResultFields[n] : n \in 1..Len(ResultFields)} |->
        IF \E n \in 1..Len(json) : json[n][1] = f
        THEN json[CHOOSE n \in 1..Len(json) : json[n][1] = f][2]
        ELSE ExtractionResult[f]]

KeyRows(rows, session_id, file_hash) ==
    {r \in rows : r.session_id = session_id /\ r.file_hash = file_hash}

\* get(session_id, hash): the completed entries in chunk_index order
get_chunk_progress(rows, session_id, file_hash) ==
    LET mine == KeyRows(rows, session_id, file_hash)
        order == SortedSeq({r.chunk_index : r \in mine})
    IN  [n \in 1..Len(order) |-> CHOOSE r \in mine : r.chunk_index = order[n]]

\* put(...): upsert on the primary key (session_id, file_hash, chunk_index),
\* committed on its own
save_chunk_result(rows, session_id, file_hash, chunk_index, chunk_size, total_chunks, result) ==
    {r \in rows : ~(/\ r.session_id = session_id
                    /\ r.file_hash = file_hash
                    /\ r.chunk_index = chunk_index)}
    \cup {[session_id |-> session_id, file_hash |-> file_hash,
           chunk_index |-> chunk_index, chunk_size |-> chunk_size,
           total_chunks |-> total_chunks, result_json |-> to_json(result)]}

\* clear(session_id, hash)
clear_chunk_progress(rows, session_id, file_hash) ==
    rows \ KeyRows(rows, session_id, file_hash)

----------------------------------------------------------------------------
(* extractor.py: extract_structured and process_transcript *)

\* What backend.generate does for a chunk on the attempt-th call of one
\* extract_structured: it raises ("call_error"), returns text that
\* extract_json_block, json.loads or ExtractionResult(**data) reject
\* ("unparseable"), or returns a record ("ok").  The collaborator is a
\* function of the chunk and the attempt: oracle names the chunk start it
\* fails on, how, and for how many attempts; pool holds the records it
\* returns.
generate(oracle, pool, chunk, attempt) ==
    IF chunk.start = oracle.bad_start /\ attempt < oracle.bad_attempts
    THEN [kind |-> oracle.bad_kind, data |-> ExtractionResult]
    ELSE [kind |-> "ok", data |-> pool[((chunk.start + chunk.end) % Len(pool)) + 1]]

\* Same, for the first attempt.
last_attempt_first(attempt, max_retries) == attempt = 0

\* attempt == config.max_retries - 1
last_attempt(attempt, max_retries) == attempt = max_retries - 1

\* Same, with no except clause: a rejected output propagates as well.
extract_attempt_nocatch(oracle, pool, max_retries, chunk, attempt) ==
    LET resp == generate(oracle, pool, chunk, attempt)
    IN  IF resp.kind = "ok"
        THEN [out |-> "return", result |-> resp.data, resp |-> resp.kind]
        ELSE [out |-> "raise", result |-> ExtractionResult, resp |-> resp.kind]

\* One iteration of the loop of extract_structured: the try block and
\* except (json.JSONDecodeError, ValueError).  An exception raised by
\* backend.generate is of neither class and leaves the function.
extract_attempt(oracle, pool, max_retries, chunk, attempt) ==
    LET resp == generate(oracle, pool, chunk, attempt)
    IN  IF resp.kind = "call_error"
        THEN [out |-> "raise", result |-> ExtractionResult, resp |-> resp.kind]
        ELSE IF resp.kind = "ok"
        THEN [out |-> "return", result |-> resp.data, resp |-> resp.kind]
        ELSE IF last_attempt(attempt, max_retries)
        THEN [out |-> "return", result |-> ExtractionResult, resp |-> resp.kind]
        ELSE [out |-> "retry", result |-> ExtractionResult, resp |-> resp.kind]

RECURSIVE extract_structured(_, _, _, _, _)
\* extract_structured(backend, config, transcript) from the given attempt
\* on: for attempt in range(config.max_retries), and the return after it
extract_structured(oracle, pool, max_retries, chunk, attempt) ==
    IF attempt >= max_retries
    THEN [out |-> "return", result |-> ExtractionResult, calls |-> attempt]
    ELSE LET a == extract_attempt(oracle, pool, max_retries, chunk, attempt)
         IN  IF a.out = "retry"
             THEN extract_structured(oracle, pool, max_retries, chunk, attempt + 1)
             ELSE [out |-> a.out, result |-> a.result, calls |-> attempt + 1]

\* Same, with each row loaded under the index after its own.
load_completed_shift(prior) ==
    [i \in {prior[n].chunk_index + 1 : n \in 1..Len(prior)} |->
        from_json(prior[CHOOSE n \in 1..Len(prior) : prior[n].chunk_index + 1 = i].result_json)]

\* completed[row["chunk_index"]] = ExtractionResult(**json.loads(row["result_json"]))
\* for row in prior
load_completed(prior) ==
    [i \in {prior[n].chunk_index : n \in 1..Len(prior)} |->
        from_json(prior[CHOOSE n \in 1..Len(prior) : prior[n].chunk_index = i].result_json)]

\* Same, taking the chunks from the last one.
chunk_at_reversed(chunks, i) == chunks[Len(chunks) - i]

\* for i, chunk in enumerate(chunks): the chunk of index i
chunk_at(chunks, i) == chunks[i + 1]

\* Same, with no single chunk path.
single_chunk_never(transcript, effective_size) == FALSE

\* if len(transcript) <= effective_chunk_size
single_chunk(transcript, effective_size) == Len(transcript) <= effective_size

\* Same, for a stored record that is not empty.
in_completed_nonempty(i, completed) ==
    i \in DOMAIN completed /\ completed[i] # ExtractionResult

\* if i in completed
in_completed(i, completed) == i \in DOMAIN completed

\* Same, resuming from whatever is stored.
can_resume_any(prior, total_chunks, chunk_size) == prior # <<>>

\* prior and prior[0]["total_chunks"] == total_chunks and
\* prior[0]["chunk_size"] == effective_chunk_size
can_resume(prior, total_chunks, chunk_size) ==
    /\ prior # <<>>
    /\ prior[1].total_chunks = total_chunks
    /\ prior[1].chunk_size = chunk_size

----------------------------------------------------------------------------
(* cli_batch.py: _batch_extract after process_transcript returned, and the  *)
(* store.close() of handle_batch                                            *)

\* Same, with what upsert_session wrote before it raised committed.
batch_index_keep(db, session_id, file_hash, result, report, upsert) ==
    IF report = "raise"
    THEN [db |-> db, outcome |-> "report_failed"]
    ELSE IF upsert = "raise" \/ upsert_session(db, session_id, file_hash, result).raised
    THEN [db |-> replace_session(delete_old_items(db, session_id), session_id,
                                 file_hash, result),
          outcome |-> "upsert_failed"]
    ELSE [db |-> upsert_session(db, session_id, file_hash, result).db,
          outcome |-> "indexed"]

\* write_session_markdown, store.upsert_session and, in handle_batch,
\* store.close(): the committed database afterwards.  report and upsert say
\* whether writing the report and a statement of upsert_session raise; an
\* exception leaves _batch_extract before the commit of upsert_session and
\* closing the connection discards what was not committed.
batch_index(db, session_id, file_hash, result, report, upsert) ==
    IF report = "raise"
    THEN [db |-> db, outcome |-> "report_failed"]
    ELSE IF upsert = "raise" \/ upsert_session(db, session_id, file_hash, result).raised
    THEN [db |-> db, outcome |-> "upsert_failed"]
    ELSE [db |-> upsert_session(db, session_id, file_hash, result).db,
          outcome |-> "indexed"]

----------------------------------------------------------------------------
(* The state of each part before it is used *)

\* No call of chunk_transcript is being checked.
CtIdle ==
    /\ ct_text = <<>>
    /\ ct_max_size = 1
    /\ ct_overlap = 0
    /\ ct_pc = "off"
    /\ ct_chunks = <<>>

\* No upsert_session call yet.
NoUpsert ==
    [session_id |-> "none", result |-> ExtractionResult, raised |-> FALSE,
     was_indexed |-> FALSE, before_keys |-> {}, old_ids |-> {}, old_embedded |-> {},
     clean |-> TRUE]

NoEmbed == [model |-> "none", embedding |-> "none", ids |-> {}, raised |-> FALSE]

\* A store on a new file.
StIdle ==
    /\ st_db = EmptyDb
    /\ st_disk = EmptyDb
    /\ st_lastrowid = 0
    /\ st_up = NoUpsert
    /\ st_last = "open"
    /\ st_ops = 0
    /\ st_emb = NoEmbed
    /\ st_before = EmptyDb
    /\ st_ever = {}

\* No run of process_transcript, an empty chunk_progress table.
PtIdle ==
    /\ cp_rows = {}
    /\ pt_env = [max_retries |-> 1, chunk_overlap |-> 0,
                 oracle |-> [bad_start |-> -1, bad_kind |-> "unparseable", bad_attempts |-> 0]]
    /\ pt_pc = "off"
    /\ pt_run = <<>>
    /\ pt_completed = <<>>
    /\ pt_results = <<>>
    /\ pt_src = <<>>
    /\ pt_i = 0
    /\ pt_attempt = 0
    /\ pt_calls = 0
    /\ pt_log = <<>>
    /\ pt_resp = "none"
    /\ pt_ret = ExtractionResult
    /\ pt_runs = 0

\* No call of merge_results is being checked.
MgIdle ==
    /\ mg_results = <<>>
    /\ mg_pc = "off"
    /\ mg_merged = ExtractionResult

\* No search is being checked.
ShIdle ==
    /\ sh_kw = [kind |-> "ok", items |-> <<>>]
    /\ sh_vec = [kind |-> "ok", items |-> <<>>]
    /\ sh_limit = 1
    /\ sh_pc = "off"
    /\ sh_merged = <<>>
    /\ sh_out = [raised |-> FALSE, items |-> <<>>]

\* No configuration is being checked.
CfIdle ==
    /\ cf_env = 0
    /\ cf_cli = 0
    /\ cf_file_size = 0
    /\ cf_pc = "off"
    /\ cf_config = <<>>
    /\ cf_effective = 0

NoBatch == [session_id |-> "", file_hash |-> "", mode |-> "none", outcome |-> "none"]

\* No batch command is running.
BtIdle ==
    /\ bt_step = "off"
    /\ bt_outcome = "none"
    /\ bt_prev = NoBatch

FnIdle == MgIdle /\ ShIdle /\ CfIdle /\ BtIdle

----------------------------------------------------------------------------
(* Specification of the chunk splitter: every bounded input, then the call *)

InitChunk ==
    /\ \E n \in 0..MaxTextLen, p \in 0..MaxTextLen, w \in 0..MaxBreakRun :
          /\ p <= n
          /\ ct_text = TextWithBreak(n, p, w)
    /\ ct_max_size \in 1..MaxChunkSize
    /\ ct_overlap \in 0..MaxOverlap
    /\ ct_pc = "input"
    /\ ct_chunks = <<>>
    /\ StIdle
    /\ PtIdle
    /\ FnIdle

\* chunks = chunk_transcript(text, max_size, overlap)
ChunkTranscript ==
    /\ ct_pc = "input"
    /\ ct_chunks' = chunk_transcript(ct_text, ct_max_size, ct_overlap)
    /\ ct_pc' = "done"
    /\ UNCHANGED <<ct_text, ct_max_size, ct_overlap, st_vars, pt_vars, fn_vars>>

NextChunk == ChunkTranscript

SpecChunk == InitChunk /\ [][NextChunk]_vars

----------------------------------------------------------------------------
(* Specification of the store: calls of the MinutesStore methods on one    *)
(* connection, and closing and reopening the store file                    *)

\* Inputs of the store model
StoreSessions == {"s1", "s2"}
Models == {"m1", "m2"}
Vectors == {"v1", "v2"}
Ta == <<"a">>
Tb == <<"b">>
Tc == <<"c">>
Td == <<"d">>
Tapi == <<"A", "P", "I">>
RecAB == [ExtractionResult EXCEPT
             !.decisions = <<Decision(Ta, <<>>, Tc), Decision(Tb, <<>>, <<>>)>>,
             !.tldr = Ta]
RecBC == [ExtractionResult EXCEPT
             !.decisions = <<Decision(Tb, <<>>, <<>>)>>,
             !.action_items = <<ActionItem(Tc, <<>>)>>,
             !.concepts = <<Concept(Tapi, Ta)>>]
RecDupMid == [ExtractionResult EXCEPT
             !.decisions = <<Decision(Tc, <<>>, <<>>), Decision(Tc, <<>>, Ta),
                             Decision(Td, <<>>, <<>>)>>]
RecDupEnd == [ExtractionResult EXCEPT
             !.concepts = <<Concept(Tapi, Ta), Concept(Tapi, Tb)>>]
StoreRecords == {ExtractionResult, RecAB, RecBC, RecDupMid, RecDupEnd}
\* The file hash that comes with each record
HashOf(result) == IF result \in {RecAB, RecDupMid} THEN <<"h1">> ELSE <<"h2">>
Queries == {Ta, Tb, Tc, Td, Tapi}
Categories == {"decision", "idea", "question", "action_item", "concept", "term"}

SessionItems(db, session_id) == {i \in db.items : i.session_id = session_id}
ItemKey(i) == [category |-> i.category, content |-> i.content]
SessionKeys(db, session_id) == {ItemKey(i) : i \in SessionItems(db, session_id)}
RecordKeys(result) ==
    {ItemKey(items_to_insert(result)[n]) : n \in 1..Len(items_to_insert(result))}
HasDuplicate(result) == Cardinality(RecordKeys(result)) < Len(items_to_insert(result))

\* store.upsert_session(session_id, ..., result, file_hash=...): the whole
\* method; the commit at its end is reached only when nothing raised.
UpsertSession ==
    \E session_id \in StoreSessions, result \in StoreRecords :
        LET r == upsert_session(st_db, session_id, HashOf(result), result)
            old == SessionItems(st_db, session_id)
        IN  /\ st_ops < MaxStoreOps
            /\ st_ops' = st_ops + 1
            /\ st_db.seq + Len(items_to_insert(result)) <= MaxItemId
            /\ st_db' = r.db
            /\ st_disk' = IF r.raised THEN st_disk ELSE r.db
            /\ st_lastrowid' = r.lastrowid
            /\ st_up' = [session_id |-> session_id, result |-> result,
                         raised |-> r.raised,
                         was_indexed |-> is_indexed(st_db, session_id, <<>>),
                         before_keys |-> SessionKeys(st_db, session_id),
                         old_ids |-> {i.id : i \in old},
                         old_embedded |-> {i.id : i \in
                             {j \in old : \E e \in st_db.emb : e.item_id = j.id}},
                         clean |-> st_db = st_disk]
            /\ st_last' = "upsert_session"
            /\ st_before' = st_db
            /\ st_ever' = st_ever \cup {i.id : i \in st_disk.items}
            /\ UNCHANGED <<st_emb, ct_vars, pt_vars, fn_vars>>

\* store.store_embeddings(item_ids, embeddings, model) for the items returned
\* by get_unembedded_items(model), as _generate_embeddings calls it, or for
\* every item, embedded or not; it commits.
StoreEmbeddings ==
    \E model \in Models, embedding \in Vectors :
      \E ids \in {{i.id : i \in get_unembedded_items(st_db, model)},
                   {i.id : i \in st_db.items}} :
        LET r == store_embeddings(st_db, SortedSeq(ids), embedding, model)
        IN  /\ st_ops < MaxStoreOps
            /\ st_ops' = st_ops + 1
            /\ st_db' = r.db
            /\ st_disk' = IF r.raised THEN st_disk ELSE r.db
            /\ st_last' = "store_embeddings"
            /\ st_emb' = [model |-> model, embedding |-> embedding, ids |-> ids,
                          raised |-> r.raised]
            /\ st_before' = st_db
            /\ UNCHANGED <<st_lastrowid, st_up, st_ever, ct_vars, pt_vars, fn_vars>>

\* store.close() and MinutesStore(db_path) again: closing the connection
\* rolls back what was not committed.
Reopen ==
    /\ st_ops < MaxStoreOps
    /\ st_ops' = st_ops + 1
    /\ st_db' = st_disk
    /\ st_lastrowid' = 0
    /\ st_last' = "open"
    /\ st_before' = st_db
    /\ UNCHANGED <<st_disk, st_up, st_emb, st_ever, ct_vars, pt_vars, fn_vars>>

InitStore == StIdle /\ CtIdle /\ PtIdle /\ FnIdle

NextStore == UpsertSession \/ StoreEmbeddings \/ Reopen

SpecStore == InitStore /\ [][NextStore]_vars

----------------------------------------------------------------------------
(* Specification of the extraction pipeline: runs of process_transcript    *)
(* against one chunk progress store, each run one call from the batch      *)
(* command (store attached) or from the process command (no store), and    *)
(* the process killed at any point of a run                                *)

Text1 == <<"a", "a", "a", "a", NL, NL, "b", "b", "b", "b">>
Text2 == <<"c", "c", "c", "c", "d", "d", "d">>

\* Config(): max_chunk_size of a few characters in place of 12_000
DefaultConfig ==
    [max_chunk_size |-> 12, chunk_size_override |-> FALSE, chunk_tiers |-> chunk_tiers]

\* cli_batch.py: if chunk_size: config.max_chunk_size = chunk_size;
\* config.chunk_size_override = True  (0 stands for no --chunk-size)
ConfigFor(chunk_size) ==
    IF chunk_size # 0
    THEN [DefaultConfig EXCEPT !.max_chunk_size = chunk_size, !.chunk_size_override = TRUE]
    ELSE DefaultConfig

ChunkSizeOptions == {0, 4, 12}

\* The calls of process_transcript the model makes: two session files, of
\* st_size 500000 (first tier) and 5000000 (second tier), and the process
\* command on an empty text and on a text
Invocations ==
    {[session_id |-> "s1", file_hash |-> "h1", store |-> TRUE, transcript |-> Text1,
      file_size |-> 500000, chunk_size |-> c] : c \in ChunkSizeOptions}
    \cup {[session_id |-> "s1", file_hash |-> "h2", store |-> TRUE, transcript |-> Text2,
           file_size |-> 5000000, chunk_size |-> c] : c \in ChunkSizeOptions}
    \cup {[session_id |-> "", file_hash |-> "", store |-> FALSE, transcript |-> t,
           file_size |-> 0, chunk_size |-> 0] : t \in {<<>>, Text1}}

\* The records the collaborator returns
Wabcde == <<"a", "b", "c", "d", "e">>
Wabcdx == <<"a", "b", "c", "d", "x">>
Waaaa == <<"a", "a", "a", "a">>
Wzzzz == <<"z", "z", "z", "z">>
WBob == <<"B", "o", "b">>
Pool ==
    <<[ExtractionResult EXCEPT
          !.decisions = <<Decision(Wabcde, Wteam, Waaaa)>>,
          !.tldr = <<"a", "b">>],
      [ExtractionResult EXCEPT
          !.decisions = <<Decision(Wabcdx, WBob, Wna)>>,
          !.action_items = <<ActionItem(Wabcde, Lower(WBob))>>,
          !.questions = <<Question(Wzzzz, Wzzzz, Wuser)>>,
          !.tldr = <<"a", "b", "c">>],
      [ExtractionResult EXCEPT
          !.concepts = <<Concept(Tapi, Ta)>>,
          !.ideas = <<Idea(Wabcde, <<>>)>>]>>

\* The collaborators: one that answers every call, and ones that fail on
\* the chunk starting at bad_start for the first bad_attempts attempts
Oracles ==
    {[bad_start |-> -1, bad_kind |-> "unparseable", bad_attempts |-> 0]}
    \cup [bad_start : {0, 4}, bad_kind : {"unparseable", "call_error"},
          bad_attempts : 1..MaxBadAttempts]

NoRun ==
    [session_id |-> "", file_hash |-> "", store |-> FALSE, transcript |-> <<>>,
     file_size |-> 0, chunk_size |-> 0, mode |-> "none", chunks |-> <<>>,
     total_chunks |-> 0, stored |-> <<>>, resumed |-> FALSE, before |-> {}]

\* if store and session_id and file_hash
has_store(run) == run.store /\ run.session_id # "" /\ run.file_hash # ""

\* process_transcript up to the loop: the early return, the single chunk
\* path, chunk_transcript and the resume block
StartRun(inv) ==
    /\ pt_pc \in {"idle", "returned", "raised", "store_error", "killed"}
    /\ pt_runs < MaxRuns
    /\ LET config == ConfigFor(inv.chunk_size)
            effective == effective_chunk_size(config, inv.file_size)
            stored == IF has_store(inv)
                      THEN get_chunk_progress(cp_rows, inv.session_id, inv.file_hash)
                      ELSE <<>>
            chunks == chunk_transcript(inv.transcript, effective, pt_env.chunk_overlap)
            resume == has_store(inv) /\ can_resume(stored, Len(chunks), effective)
            run == [session_id |-> inv.session_id, file_hash |-> inv.file_hash,
                    store |-> inv.store, transcript |-> inv.transcript,
                    file_size |-> inv.file_size, chunk_size |-> effective,
                    mode |-> "none", chunks |-> <<>>, total_chunks |-> 0,
                    stored |-> stored, resumed |-> FALSE, before |-> cp_rows]
        IN  /\ pt_runs' = pt_runs + 1
            /\ pt_results' = <<>>
            /\ pt_src' = <<>>
            /\ pt_i' = 0
            /\ pt_attempt' = 0
            /\ pt_calls' = 0
            /\ pt_log' = <<>>
            /\ pt_resp' = "none"
            /\ IF inv.transcript = <<>>
               THEN /\ pt_pc' = "returned"
                    /\ pt_run' = [run EXCEPT !.mode = "empty"]
                    /\ pt_ret' = ExtractionResult
                    /\ pt_completed' = <<>>
                    /\ UNCHANGED cp_rows
               ELSE IF single_chunk(inv.transcript, effective)
               THEN /\ pt_pc' = "single"
                    /\ pt_run' = [run EXCEPT !.mode = "single",
                                             !.chunks = <<Chunk(inv.transcript, 0, Len(inv.transcript))>>,
                                             !.total_chunks = 1]
                    /\ pt_ret' = ExtractionResult
                    /\ pt_completed' = <<>>
                    /\ UNCHANGED cp_rows
               ELSE /\ pt_pc' = "loop"
                    /\ pt_run' = [run EXCEPT !.mode = "chunked", !.chunks = chunks,
                                             !.total_chunks = Len(chunks),
                                             !.resumed = resume]
                    /\ pt_ret' = ExtractionResult
                    /\ pt_completed' = IF resume THEN load_completed(stored) ELSE <<>>
                    /\ cp_rows' = IF has_store(inv) /\ ~resume /\ stored # <<>>
                                  THEN clear_chunk_progress(cp_rows, inv.session_id, inv.file_hash)
                                  ELSE cp_rows
    /\ UNCHANGED <<pt_env, ct_vars>>

\* A call of process_transcript from the batch command or the process command
Start ==
    /\ \E inv \in Invocations : StartRun(inv)
    /\ UNCHANGED <<st_vars, fn_vars>>

\* if i in completed: results.append(completed[i]); continue
SkipCompleted ==
    /\ pt_pc = "loop"
    /\ pt_i < pt_run.total_chunks
    /\ in_completed(pt_i, pt_completed)
    /\ pt_results' = Append(pt_results, pt_completed[pt_i])
    /\ pt_src' = Append(pt_src, "resumed")
    /\ pt_i' = pt_i + 1
    /\ UNCHANGED <<pt_pc, pt_run, pt_completed, pt_attempt, pt_calls, pt_log, pt_resp,
                   pt_ret, pt_runs, pt_env, cp_rows, ct_vars, st_vars, fn_vars>>

\* One attempt of extract_structured on the current chunk, and what follows
\* its return: on the single chunk path cleanup_result and the return, in
\* the loop results.append(result) and store.save_chunk_result(...).
ExtractAttempt ==
    /\ pt_pc \in {"single", "loop"}
    /\ pt_i < pt_run.total_chunks
    /\ ~in_completed(pt_i, pt_completed)
    /\ LET chunk == chunk_at(pt_run.chunks, pt_i)
           a == IF pt_attempt >= pt_env.max_retries
                THEN [out |-> "return", result |-> ExtractionResult, resp |-> pt_resp]
                ELSE extract_attempt(pt_env.oracle, Pool, pt_env.max_retries, chunk, pt_attempt)
       IN  /\ pt_calls' = IF pt_attempt >= pt_env.max_retries THEN pt_calls ELSE pt_calls + 1
           /\ pt_log' = IF pt_attempt >= pt_env.max_retries THEN pt_log
                        ELSE Append(pt_log, chunk)
           /\ pt_resp' = a.resp
           /\ CASE a.out = "raise" ->
                    /\ pt_pc' = "raised"
                    /\ pt_attempt' = pt_attempt + 1
                    /\ UNCHANGED <<pt_results, pt_src, pt_i, pt_ret, cp_rows>>
                [] a.out = "retry" ->
                    /\ pt_attempt' = pt_attempt + 1
                    /\ UNCHANGED <<pt_pc, pt_results, pt_src, pt_i, pt_ret, cp_rows>>
                [] a.out = "return" /\ pt_pc = "single" ->
                    /\ pt_pc' = "returned"
                    /\ pt_ret' = cleanup_result(a.result, pt_run.transcript)
                    /\ pt_results' = <<a.result>>
                    /\ pt_src' = <<"extracted">>
                    /\ pt_i' = 1
                    /\ pt_attempt' = 0
                    /\ UNCHANGED cp_rows
                [] a.out = "return" /\ pt_pc = "loop" ->
                    /\ pt_results' = Append(pt_results, a.result)
                    /\ pt_src' = Append(pt_src, "extracted")
                    /\ \/ /\ cp_rows' = IF has_store(pt_run)
                                        THEN save_chunk_result(cp_rows, pt_run.session_id,
                                                 pt_run.file_hash, pt_i, pt_run.chunk_size,
                                                 pt_run.total_chunks, a.result)
                                        ELSE cp_rows
                          /\ pt_i' = pt_i + 1
                          /\ pt_attempt' = 0
                          /\ UNCHANGED <<pt_pc, pt_ret>>
                       \/ \* store.save_chunk_result raises: its transaction is
                          \* rolled back and the exception leaves the run
                          /\ has_store(pt_run)
                          /\ pt_pc' = "store_error"
                          /\ UNCHANGED <<cp_rows, pt_i, pt_attempt, pt_ret>>
    /\ UNCHANGED <<pt_run, pt_completed, pt_runs, pt_env, ct_vars, st_vars, fn_vars>>

\* After the loop: store.clear_chunk_progress, merge_results, cleanup_result
Finish ==
    /\ pt_pc = "loop"
    /\ pt_i = pt_run.total_chunks
    /\ \/ /\ cp_rows' = IF has_store(pt_run)
                        THEN clear_chunk_progress(cp_rows, pt_run.session_id,
                                                  pt_run.file_hash)
                        ELSE cp_rows
          /\ pt_ret' = cleanup_result(merge_results(pt_results), pt_run.transcript)
          /\ pt_pc' = "returned"
       \/ \* store.clear_chunk_progress raises
          /\ has_store(pt_run)
          /\ pt_pc' = "store_error"
          /\ UNCHANGED <<cp_rows, pt_ret>>
    /\ UNCHANGED <<pt_run, pt_completed, pt_results, pt_src, pt_i, pt_attempt, pt_calls,
                   pt_log, pt_resp, pt_runs, pt_env, ct_vars, st_vars, fn_vars>>

\* The process is interrupted during a run; what save_chunk_result
\* committed stays in the store file.
Kill ==
    /\ pt_pc \in {"single", "loop"}
    /\ pt_pc' = "killed"
    /\ UNCHANGED <<pt_run, pt_completed, pt_results, pt_src, pt_i, pt_attempt, pt_calls,
                   pt_log, pt_resp, pt_ret, pt_runs, pt_env, cp_rows, ct_vars, st_vars,
                   fn_vars>>

InitPipe ==
    /\ pt_env \in [max_retries : 1..MaxRetries, chunk_overlap : 0..MaxPipeOverlap,
                   oracle : Oracles]
    /\ cp_rows = {}
    /\ pt_pc = "idle"
    /\ pt_run = NoRun
    /\ pt_completed = <<>>
    /\ pt_results = <<>>
    /\ pt_src = <<>>
    /\ pt_i = 0
    /\ pt_attempt = 0
    /\ pt_calls = 0
    /\ pt_log = <<>>
    /\ pt_resp = "none"
    /\ pt_ret = ExtractionResult
    /\ pt_runs = 0
    /\ CtIdle
    /\ StIdle
    /\ FnIdle

NextPipe == Start \/ SkipCompleted \/ ExtractAttempt \/ Finish \/ Kill

SpecPipe == InitPipe /\ [][NextPipe]_vars

----------------------------------------------------------------------------
(* Specification of the batch command in extract mode: for a session that  *)
(* is not indexed, process_transcript with the store attached, then the    *)
(* report, upsert_session and store.close(); the batch command is run      *)
(* again after it ended or was killed                                      *)

\* The hash as the column file_hash of sessions holds it
HashColumn(file_hash) == <<file_hash>>

\* handle_batch for a pending session: is_indexed is false, and
\* _batch_extract calls process_transcript
BatchStart ==
    /\ bt_step \in {"scan", "closed"}
       \/ (bt_step = "extract" /\ pt_pc \in {"raised", "store_error", "killed"})
    /\ \E inv \in {v \in Invocations : has_store(v)} :
          /\ ~is_indexed(st_disk, inv.session_id, HashColumn(inv.file_hash))
          /\ StartRun(inv)
    /\ bt_step' = "extract"
    /\ bt_outcome' = "none"
    /\ bt_prev' = IF bt_step = "scan" THEN NoBatch
                  ELSE [session_id |-> pt_run.session_id, file_hash |-> pt_run.file_hash,
                        mode |-> pt_run.mode,
                        outcome |-> IF bt_step = "closed" THEN bt_outcome ELSE pt_pc]
    /\ UNCHANGED <<st_vars, mg_vars, sh_vars, cf_vars>>

\* _batch_extract after process_transcript returned, and store.close()
BatchIndex ==
    /\ bt_step = "extract"
    /\ pt_pc = "returned"
    /\ \E report \in {"ok", "raise"}, upsert \in {"ok", "raise"} :
          LET r == batch_index(st_disk, pt_run.session_id, HashColumn(pt_run.file_hash),
                               pt_ret, report, upsert)
          IN  /\ st_db' = r.db
              /\ st_disk' = r.db
              /\ bt_outcome' = r.outcome
    /\ bt_step' = "closed"
    /\ UNCHANGED <<bt_prev, st_lastrowid, st_up, st_last, st_ops, st_emb, st_before,
                   st_ever, pt_vars, ct_vars, mg_vars, sh_vars, cf_vars>>

InitBatch ==
    /\ pt_env \in [max_retries : 1..MaxRetries, chunk_overlap : {0}, oracle : Oracles]
    /\ cp_rows = {}
    /\ pt_pc = "idle"
    /\ pt_run = NoRun
    /\ pt_completed = <<>>
    /\ pt_results = <<>>
    /\ pt_src = <<>>
    /\ pt_i = 0
    /\ pt_attempt = 0
    /\ pt_calls = 0
    /\ pt_log = <<>>
    /\ pt_resp = "none"
    /\ pt_ret = ExtractionResult
    /\ pt_runs = 0
    /\ bt_step = "scan"
    /\ bt_outcome = "none"
    /\ bt_prev = NoBatch
    /\ CtIdle /\ StIdle /\ MgIdle /\ ShIdle /\ CfIdle

NextBatch ==
    BatchStart \/ SkipCompleted \/ ExtractAttempt \/ Finish \/ Kill \/ BatchIndex

SpecBatch == InitBatch /\ [][NextBatch]_vars

----------------------------------------------------------------------------
(* Specification of the merge: every list of at most MaxResults chunk      *)
(* records from a pool, then the call of merge_results                     *)

WABCDE == <<"A", "B", "C", "D", "E">>
WABCDx == <<"A", "B", "C", "D", "x">>
Wvwxyz == <<"v", "w", "x", "y", "z">>
Wvwxy == <<"v", "w", "x", "y">>
Wapi == <<"a", "p", "i">>

\* The chunk records given to merge_results
MergePool ==
    {[ExtractionResult EXCEPT
         !.decisions = <<Decision(Wabcde, WBob, Ta)>>,
         !.action_items = <<ActionItem(Wabcdx, WBob)>>,
         !.concepts = <<Concept(Tapi, Ta)>>,
         !.tldr = <<"a", "b">>],
     [ExtractionResult EXCEPT
         !.decisions = <<Decision(Wabcdx, <<>>, Tb), Decision(Wvwxyz, <<>>, Tb)>>,
         !.ideas = <<Idea(Wabcde, Tb)>>,
         !.concepts = <<Concept(Wapi, Tb), Concept(Tapi, Tb)>>,
         !.tldr = <<"c", "d">>],
     [ExtractionResult EXCEPT
         !.decisions = <<Decision(WABCDE, <<>>, Tc)>>,
         !.action_items = <<ActionItem(WABCDE, <<>>), ActionItem(Wvwxyz, WBob)>>,
         !.questions = <<Question(Wabcde, Tc, <<>>)>>,
         !.terms = <<Term(Wapi, Ta)>>],
     [ExtractionResult EXCEPT
         !.questions = <<Question(Wabcdx, Td, <<>>), Question(WABCDE, Td, <<>>)>>,
         !.ideas = <<Idea(Wvwxyz, Td), Idea(Wvwxy, Td)>>,
         !.action_items = <<ActionItem(Wvwxy, <<>>)>>,
         !.terms = <<Term(Wapi, Tb), Term(Tapi, Ta)>>,
         !.tldr = <<"a", "b", "c">>],
     [ExtractionResult EXCEPT
         !.action_items = <<ActionItem(WABCDx, <<>>)>>,
         !.ideas = <<Idea(WABCDE, <<>>)>>,
         !.tldr = <<"x", "y", "z">>],
     [ExtractionResult EXCEPT
         !.decisions = <<Decision(Wabcde, <<>>, Td)>>,
         !.questions = <<Question(Wabcde, Ta, WBob), Question(Wabcdx, Tb, <<>>),
                         Question(Wvwxyz, Tc, <<>>)>>,
         !.tldr = <<"a">>],
     ExtractionResult}

RECURSIVE SeqsUpTo(_, _)
\* The sequences of at most n elements of S
SeqsUpTo(S, n) ==
    IF n = 0 THEN {<<>>}
    ELSE LET shorter == SeqsUpTo(S, n - 1)
         IN  shorter \cup {Append(q, x) : q \in shorter, x \in S}

InitMerge ==
    /\ mg_results \in SeqsUpTo(MergePool, MaxResults)
    /\ mg_pc = "input"
    /\ mg_merged = ExtractionResult
    /\ CtIdle
    /\ StIdle
    /\ PtIdle
    /\ ShIdle
    /\ CfIdle
    /\ BtIdle

\* merged = merge_results(results)
MergeResults ==
    /\ mg_pc = "input"
    /\ mg_merged' = merge_results(mg_results)
    /\ mg_pc' = "done"
    /\ UNCHANGED <<mg_results, ct_vars, st_vars, pt_vars, sh_vars, cf_vars, bt_vars>>

NextMerge == MergeResults

SpecMerge == InitMerge /\ [][NextMerge]_vars

----------------------------------------------------------------------------
(* Specification of the search: every outcome of the keyword and of the    *)
(* vector search over a store of MaxSearchItems items, then _rrf_merge on  *)
(* the lists they returned, or search_hybrid                               *)

\* One session with items 1..MaxSearchItems
SearchDb ==
    [EmptyDb EXCEPT
        !.sessions = {[id |-> "s1", rowid |-> 1, file_hash |-> <<"h">>, decisions |-> 0,
                       concepts |-> MaxSearchItems, tldr |-> <<>>]},
        !.items = {[id |-> n, session_id |-> "s1", category |-> "concept",
                    content |-> <<"a">>, detail |-> <<>>, owner |-> NoneVal,
                    date |-> NoneVal] : n \in 1..MaxSearchItems},
        !.seq = MaxSearchItems]

\* The lists of at most n distinct item ids
Rankings(n) ==
    {q \in SeqsUpTo(1..MaxSearchItems, Min(n, MaxSearchItems)) :
        \A i, j \in 1..Len(q) : i # j => q[i] # q[j]}

\* What search_keyword returns for a ranking: id, content and score = f.rank
\* (bm25: negative, the best first)
kw_results(ids) ==
    [n \in 1..Len(ids) |->
        [id |-> ids[n], content |-> <<"a">>, score |-> <<n - 1 - Len(ids), 1>>]]

\* What search_vector returns for a ranking: get_item(id) with score = the
\* inner product, the highest first
vec_results(ids) ==
    [n \in 1..Len(ids) |->
        ("score" :> <<10 - n, 10>>) @@ item_with_session(SearchDb, ids[n])]

\* The lists the sources returned, as a caller of _rrf_merge passes them
returned_lists(kw, vec) ==
    (IF kw.kind = "ok" THEN <<kw.items>> ELSE <<>>)
    \o (IF vec.kind = "ok" THEN <<vec.items>> ELSE <<>>)

InitSearch ==
    /\ sh_limit \in 1..MaxLimit
    /\ sh_kw \in {[kind |-> "raise", items |-> <<>>]}
                 \cup {[kind |-> "ok", items |-> kw_results(q)] : q \in Rankings(sh_limit)}
    /\ sh_vec \in {[kind |-> "raise", items |-> <<>>], [kind |-> "none", items |-> <<>>]}
                  \cup {[kind |-> "ok", items |-> vec_results(q)] : q \in Rankings(sh_limit)}
    /\ sh_pc = "input"
    /\ sh_merged = <<>>
    /\ sh_out = [raised |-> FALSE, items |-> <<>>]
    /\ CtIdle
    /\ StIdle
    /\ PtIdle
    /\ MgIdle
    /\ CfIdle
    /\ BtIdle

\* merged = _rrf_merge(ranked_lists)
RrfMerge ==
    /\ sh_pc = "input"
    /\ sh_merged' = rrf_merge(returned_lists(sh_kw, sh_vec), RrfK)
    /\ sh_pc' = "merged"
    /\ UNCHANGED <<sh_kw, sh_vec, sh_limit, sh_out, ct_vars, st_vars, pt_vars, mg_vars, cf_vars,
                   bt_vars>>

\* results = store.search_hybrid(query, query_embedding, limit=limit)
SearchHybrid ==
    /\ sh_pc = "input"
    /\ sh_out' = search_hybrid(SearchDb, sh_kw, sh_vec, sh_limit)
    /\ sh_pc' = "searched"
    /\ UNCHANGED <<sh_kw, sh_vec, sh_limit, sh_merged, ct_vars, st_vars, pt_vars, mg_vars,
                   cf_vars, bt_vars>>

NextSearch == RrfMerge \/ SearchHybrid

SpecSearch == InitSearch /\ [][NextSearch]_vars

----------------------------------------------------------------------------
(* Specification of the chunk size selection: the environment, the option  *)
(* --chunk-size and the source file size, then load and the selection      *)

\* Values of MAX_CHUNK_SIZE and of --chunk-size; 0 is "not given".
EnvChunkSizes == {0, 5000, 30000}
CliChunkSizes == {0, 4000, 20000}
\* Source sizes in bytes: around each threshold; 0 is what the callers pass
\* when the file cannot be stat-ed, and the default of process_transcript.
FileSizes == {0, 500000, 999999, 1000000, 5000000, 10000000, 49999999,
              50000000, 60000000}

InitConfig ==
    /\ CtIdle /\ StIdle /\ PtIdle /\ MgIdle /\ ShIdle /\ BtIdle
    /\ cf_env \in EnvChunkSizes
    /\ cf_cli \in CliChunkSizes
    /\ cf_file_size \in FileSizes
    /\ cf_pc = "input"
    /\ cf_config = <<>>
    /\ cf_effective = 0

\* run_batch up to the call of process_transcript
LoadConfig ==
    /\ cf_pc = "input"
    /\ cf_config' = batch_config(cf_env, cf_cli)
    /\ cf_pc' = "loaded"
    /\ UNCHANGED <<cf_env, cf_cli, cf_file_size, cf_effective,
                   ct_vars, st_vars, pt_vars, mg_vars, sh_vars, bt_vars>>

\* process_transcript(config, ..., file_size=...): the chunk size it uses
SelectChunkSize ==
    /\ cf_pc = "loaded"
    /\ cf_effective' = effective_chunk_size(cf_config, cf_file_size)
    /\ cf_pc' = "done"
    /\ UNCHANGED <<cf_env, cf_cli, cf_file_size, cf_config,
                   ct_vars, st_vars, pt_vars, mg_vars, sh_vars, bt_vars>>

NextConfig == LoadConfig \/ SelectChunkSize

SpecConfig == InitConfig /\ [][NextConfig]_vars

----------------------------------------------------------------------------
(* Claims about process_transcript *)

\* The run in progress or just ended is multi-chunk and took the resume branch.
PtResumed == pt_pc \in {"loop", "returned", "raised", "store_error", "killed"} /\ pt_run.mode = "chunked" /\ pt_run.resumed

\* The chunk indexes the store held when the run started
SavedIndexes == {pt_run.stored[n].chunk_index : n \in 1..Len(pt_run.stored)}

\* What process_transcript returns for the input of the current run when no
\* progress is stored: every chunk extracted, merged, cleaned.
UninterruptedResult ==
    cleanup_result(
        merge_results([n \in 1..pt_run.total_chunks |->
            extract_structured(pt_env.oracle, Pool, pt_env.max_retries, pt_run.chunks[n], 0).result]),
        pt_run.transcript)

\* Every call of the collaborator the run has to make succeeds first time.
FirstTimeSuccess ==
    \A n \in 1..pt_run.total_chunks :
        (n - 1) \notin SavedIndexes =>
            generate(pt_env.oracle, Pool, pt_run.chunks[n], 0).kind = "ok"

\* C1: a multi-chunk run re-started for the same (session_id, file_hash) with
\* the same text, chunk size and overlap after k chunk results were saved
\* extracts exactly the chunks that were not saved (total_chunks - k calls of
\* the collaborator when each call succeeds first time) and returns the
\* merged record an uninterrupted run on the same input returns.
C1_ResumeEquivalent ==
    PtResumed =>
        LET k == Len(pt_run.stored)
        IN  /\ \A n \in 1..Len(pt_src) : (pt_src[n] = "extracted") <=> ((n - 1) \notin SavedIndexes)
            /\ pt_calls <= (pt_run.total_chunks - k) * pt_env.max_retries
            /\ pt_pc = "returned" =>
                  /\ Cardinality({n \in 1..Len(pt_src) : pt_src[n] = "extracted"})
                        = pt_run.total_chunks - k
                  /\ FirstTimeSuccess => pt_calls = pt_run.total_chunks - k
                  /\ pt_ret = UninterruptedResult

\* A run of 5 chunks resumed after 2 were saved has returned after 3 calls.
C1_Witness ==
    /\ PtResumed
    /\ pt_pc = "returned"
    /\ pt_run.total_chunks = 5
    /\ Len(pt_run.stored) = 2
    /\ pt_calls = 3
    /\ pt_src = <<"resumed", "resumed", "extracted", "extracted", "extracted">>
    /\ pt_ret # ExtractionResult

\* The run was started with a store holding entries for its session and hash
\* recorded under another chunk size than its effective chunk size.
PtMismatch ==
    /\ pt_pc \in {"single", "loop", "returned", "raised", "store_error", "killed"}
    /\ has_store(pt_run)
    /\ \E n \in 1..Len(pt_run.stored) : pt_run.stored[n].chunk_size # pt_run.chunk_size

\* C2: when process_transcript is re-started for a session_id and file_hash
\* with an effective chunk size different from the one recorded in the stored
\* entries, every stored entry for that session and hash is cleared before
\* any chunk is extracted and no stored result is reused in the merge.
C2_MismatchClears ==
    PtMismatch =>
        /\ \A r \in KeyRows(cp_rows, pt_run.session_id, pt_run.file_hash) :
              r.chunk_size = pt_run.chunk_size
        /\ \A n \in 1..Len(pt_src) : pt_src[n] # "resumed"

\* C3: whenever process_transcript returns normally with a store attached,
\* the chunk progress store holds no entry for that session_id and file_hash.
C3_ClearedOnReturn ==
    (pt_pc = "returned" /\ has_store(pt_run)) =>
        KeyRows(cp_rows, pt_run.session_id, pt_run.file_hash) = {}

\* The returned value is an ExtractionResult: its seven fields, each list a
\* list of items of its class, tldr a string.
WellFormed(r) ==
    /\ DOMAIN r = {ResultFields[n] : n \in 1..Len(ResultFields)}
    /\ \A n \in 1..Len(r.decisions) : DOMAIN r.decisions[n] = DOMAIN Decision(<<>>, <<>>, <<>>)
    /\ \A n \in 1..Len(r.ideas) : DOMAIN r.ideas[n] = DOMAIN Idea(<<>>, <<>>)
    /\ \A n \in 1..Len(r.questions) : DOMAIN r.questions[n] = DOMAIN Question(<<>>, <<>>, <<>>)
    /\ \A n \in 1..Len(r.action_items) : DOMAIN r.action_items[n] = DOMAIN ActionItem(<<>>, <<>>)
    /\ \A n \in 1..Len(r.concepts) : DOMAIN r.concepts[n] = DOMAIN Concept(<<>>, <<>>)
    /\ \A n \in 1..Len(r.terms) : DOMAIN r.terms[n] = DOMAIN Term(<<>>, <<>>)
    /\ \A n \in 1..Len(r.tldr) : r.tldr[n] \in STRING

\* A run is in progress or has ended.
PtRan == pt_pc \in {"single", "loop", "returned", "raised", "store_error", "killed"}

\* The collaborator returns unparseable output for chunk n on every attempt.
AlwaysUnparseable(n) ==
    /\ pt_run.chunks[n].start = pt_env.oracle.bad_start
    /\ pt_env.oracle.bad_kind = "unparseable"
    /\ pt_env.oracle.bad_attempts >= pt_env.max_retries

\* At most max_retries calls per chunk; a chunk whose every output was
\* rejected contributes an empty record; a return is well formed.
RetriesBoundedAndSubstituted ==
    PtRan =>
        /\ pt_attempt <= pt_env.max_retries
        /\ pt_calls <= pt_run.total_chunks * pt_env.max_retries
        /\ \A n \in 1..Len(pt_src) :
              (pt_src[n] = "extracted" /\ AlwaysUnparseable(n)) => pt_results[n] = ExtractionResult
        /\ pt_pc = "returned" => WellFormed(pt_ret)

----------------------------------------------------------------------------
(* Claims about chunk_transcript *)

CtMulti == ct_pc = "done" /\ Len(ct_text) > ct_max_size /\ ct_overlap < ct_max_size

\* Some chunk was cut short at a paragraph break.
CtCutShort ==
    \E i \in 1..Len(ct_chunks) :
        /\ ct_chunks[i].end < Len(ct_text)
        /\ ct_chunks[i].end < ct_chunks[i].start + ct_max_size

\* C8: for len(T) > S and O < S the chunks are slices of T in increasing
\* position, the first starts at 0, each later chunk starts at or before the
\* end of the chunk before it, and the last ends at len(T); so every
\* character of T lies in a chunk.
C8_ChunksCover ==
    CtMulti =>
        /\ Len(ct_chunks) >= 1
        /\ ct_chunks[1].start = 0
        /\ ct_chunks[Len(ct_chunks)].end = Len(ct_text)
        /\ \A i \in 1..Len(ct_chunks) :
              /\ ct_chunks[i].start < ct_chunks[i].end
              /\ ct_chunks[i].text = Slice(ct_text, ct_chunks[i].start, ct_chunks[i].end)
        /\ \A i \in 2..Len(ct_chunks) :
              /\ ct_chunks[i].start > ct_chunks[i - 1].start
              /\ ct_chunks[i].start <= ct_chunks[i - 1].end
        /\ \A q \in 0..(Len(ct_text) - 1) :
              \E i \in 1..Len(ct_chunks) :
                  ct_chunks[i].start <= q /\ q < ct_chunks[i].end

\* A text was split into overlapping chunks, one of them cut at a paragraph
\* break.
C8_Witness == CtMulti /\ Len(ct_chunks) >= 3 /\ ct_overlap > 0 /\ CtCutShort

\* C9 as stated: for O < S the loop runs at most ceil(len(T)/(S-O)) + 1
\* steps, with the start strictly increasing, also when chunks are cut short
\* at paragraph breaks.
C9_StepBound ==
    CtMulti =>
        /\ \A i \in 2..Len(ct_chunks) : ct_chunks[i].start > ct_chunks[i - 1].start
        /\ Len(ct_chunks) <= CeilDiv(Len(ct_text), ct_max_size - ct_overlap) + 1

\* C9 amended: the start strictly increases on every step, so the loop ends
\* after at most len(T) steps; the bound ceil(len(T)/(S-O)) + 1 holds when no
\* chunk is cut short at a paragraph break.
C9_StepBoundAmended ==
    CtMulti =>
        /\ \A i \in 2..Len(ct_chunks) : ct_chunks[i].start > ct_chunks[i - 1].start
        /\ Len(ct_chunks) <= Len(ct_text)
        /\ (~CtCutShort =>
              Len(ct_chunks) <= CeilDiv(Len(ct_text), ct_max_size - ct_overlap) + 1)

\* A run whose step count equals the bound and where no chunk was cut short,
\* with an overlap that makes the extra final chunk.
C9_Witness ==
    /\ CtMulti /\ ~CtCutShort /\ ct_overlap > 0
    /\ Len(ct_chunks) = CeilDiv(Len(ct_text), ct_max_size - ct_overlap) + 1

\* C10: for len(T) <= S the result is exactly one chunk, equal to T, for
\* every overlap.
C10_SingleChunk ==
    (ct_pc = "done" /\ Len(ct_text) <= ct_max_size) =>
        /\ Len(ct_chunks) = 1
        /\ ct_chunks[1].text = ct_text

\* A text with a paragraph break that fits in one chunk, with an overlap
\* larger than its length.
C10_Witness ==
    /\ ct_pc = "done" /\ Len(ct_text) <= ct_max_size
    /\ Len(ct_text) >= 3 /\ ct_overlap >= Len(ct_text)
    /\ \E p \in 1..(Len(ct_text) - 1) : ct_text[p] = NL /\ ct_text[p + 1] = NL
    /\ Len(ct_chunks) = 1

----------------------------------------------------------------------------
(* Claims about the index writer *)

Views == {st_db, st_disk}

\* The ids a reader can get from a view through the three read methods.
ReachableIds(db) ==
    {i.id : i \in UNION {search_keyword(db, q, c) : q \in Queries, c \in Categories \cup {NoCategory}}}
    \cup {i.id : i \in UNION {search_vector(db, c, m) : c \in Categories \cup {NoCategory}, m \in Models}}
    \cup {i.id : i \in UNION {get_unembedded_items(db, m) : m \in Models}}

\* Every item of the session has one items_fts row, with its content.
SessionIndexed(db, session_id) ==
    \A i \in SessionItems(db, session_id) :
        Cardinality({f \in db.fts : f.rowid = i.id /\ f.content = i.content}) = 1

\* C5: after upsert_session commits on a session that was indexed before,
\* the items of the session are exactly the items of the new record, one per
\* (category, content), and no item, embedding or keyword-index entry of the
\* previous record can be reached by search_keyword, search_vector or
\* get_unembedded_items.
C5_ReindexReplaces ==
    (st_last = "upsert_session" /\ ~st_up.raised /\ st_up.was_indexed) =>
        \A db \in Views :
            /\ SessionKeys(db, st_up.session_id) = RecordKeys(st_up.result)
            /\ Cardinality(SessionItems(db, st_up.session_id))
                  = Cardinality(RecordKeys(st_up.result))
            /\ SessionIndexed(db, st_up.session_id)
            /\ ReachableIds(db) \cap st_up.old_ids = {}
            /\ \A e \in db.emb : e.item_id \notin st_up.old_ids
            /\ \A f \in db.fts : f.rowid \notin st_up.old_ids

\* A session whose items had embeddings was indexed again with a record that
\* repeats one of its contents and adds another.
C5_Witness ==
    /\ st_last = "upsert_session" /\ ~st_up.raised /\ st_up.was_indexed
    /\ st_up.old_embedded # {}
    /\ st_up.before_keys \cap RecordKeys(st_up.result) # {}
    /\ RecordKeys(st_up.result) \ st_up.before_keys # {}
    /\ st_up.before_keys \ RecordKeys(st_up.result) # {}

\* C6: upsert_session is all-or-nothing.  In the view of the connection and
\* in the committed database, the items of the session of the last upsert,
\* with their keyword-index entries, are those from before the call or
\* those of the new record, also after the call failed and a later operation
\* committed.
C6_UpsertAtomic ==
    (st_up.session_id # "none") =>
        \A db \in Views :
            \/ /\ SessionKeys(db, st_up.session_id) = st_up.before_keys
               /\ {i.id : i \in SessionItems(db, st_up.session_id)} = st_up.old_ids
            \/ /\ SessionKeys(db, st_up.session_id) = RecordKeys(st_up.result)
               /\ {i.id : i \in SessionItems(db, st_up.session_id)} \cap st_up.old_ids = {}
               /\ SessionIndexed(db, st_up.session_id)

\* C7: upsert_session with a record that has two items with the same
\* (category, content) completes without an error, stores one item row for
\* the key and adds one keyword-index entry for it.
C7_DuplicateIgnored ==
    (st_last = "upsert_session" /\ HasDuplicate(st_up.result)) =>
        /\ ~st_up.raised
        /\ \A k \in RecordKeys(st_up.result) :
              Cardinality({i \in SessionItems(st_db, st_up.session_id) : ItemKey(i) = k}) = 1
        /\ SessionIndexed(st_db, st_up.session_id)

----------------------------------------------------------------------------
(* Claims about merge_results *)

\* The elements of list at the positions K, in the order of the list
PicksOf(list, K) == [n \in 1..Cardinality(K) |-> list[SortedSeq(K)[n]]]

\* SequenceMatcher(None, a, b).ratio() >= 0.80 on the texts as they are:
\* 2 * matches / (len(a) + len(b)) >= 80 / 100
Similar(a, b) ==
    Len(a) + Len(b) = 0
    \/ 100 * 2 * matching_size(a, b, 0, Len(a), 0, Len(b)) >= 80 * (Len(a) + Len(b))

\* kept is what the within-category rule keeps of all: a subsequence of all
\* in which no item is similar to a kept item before it, every item left
\* out being similar to a kept item before it.
KeptBySimilarity(kept, all, attr) ==
    \E K \in SUBSET (1..Len(all)) :
        /\ kept = PicksOf(all, K)
        /\ \A j \in K : \A i \in K : i < j => ~Similar(all[j][attr], all[i][attr])
        /\ \A j \in (1..Len(all)) \ K :
              \E i \in K : i < j /\ Similar(all[j][attr], all[i][attr])

\* sub is a subsequence of list
IsSubsequence(sub, list) == \E K \in SUBSET (1..Len(list)) : sub = PicksOf(list, K)

\* Every decision of the input has the same summary.
OneSummary ==
    LET all == concat_lists(mg_results, "decisions")
    IN  all # <<>> /\ \A i, j \in 1..Len(all) : all[i].summary = all[j].summary

WithinKept(field, attr) == deduplicate_by_similarity(concat_lists(mg_results, field), attr)

\* text has similarity >= 0.80, case-sensitive as in the within-category
\* pass, to the summary of a decision of the merged record
RestatesCased(text) ==
    \E n \in 1..Len(mg_merged.decisions) : Similar(text, mg_merged.decisions[n].summary)

\* Same on the lower-cased texts
RestatesLowered(text) ==
    \E n \in 1..Len(mg_merged.decisions) :
        Similar(Lower(text), Lower(mg_merged.decisions[n].summary))

\* C12 as stated: no action item and no idea of the merged record has
\* similarity >= 0.80 (the similarity of the within-category pass) to the
\* summary of a merged decision, and the cross-category pass drops an action
\* item or idea only if it has such a match.
C12_NoRestatingItemCased ==
    mg_pc = "done" =>
        \A fa \in {<<"action_items", "description">>, <<"ideas", "title">>} :
            \E K \in SUBSET (1..Len(WithinKept(fa[1], fa[2]))) :
                /\ mg_merged[fa[1]] = PicksOf(WithinKept(fa[1], fa[2]), K)
                /\ \A j \in K : ~RestatesCased(WithinKept(fa[1], fa[2])[j][fa[2]])
                /\ \A j \in (1..Len(WithinKept(fa[1], fa[2]))) \ K :
                      RestatesCased(WithinKept(fa[1], fa[2])[j][fa[2]])

\* C12: after merge_results no action item and no idea of the merged record
\* has similarity >= 0.80, computed on the lower-cased texts, to the summary
\* of a decision of the merged record, and the cross-category pass drops an
\* action item or idea only if it has such a match.
C12_NoRestatingItem ==
    mg_pc = "done" =>
        \A fa \in {<<"action_items", "description">>, <<"ideas", "title">>} :
            \E K \in SUBSET (1..Len(WithinKept(fa[1], fa[2]))) :
                /\ mg_merged[fa[1]] = PicksOf(WithinKept(fa[1], fa[2]), K)
                /\ \A j \in K : ~RestatesLowered(WithinKept(fa[1], fa[2])[j][fa[2]])
                /\ \A j \in (1..Len(WithinKept(fa[1], fa[2]))) \ K :
                      RestatesLowered(WithinKept(fa[1], fa[2])[j][fa[2]])

\* The cross-category pass dropped an action item that matches a decision
\* only when case is ignored, and kept another action item.
C12_Witness ==
    /\ mg_pc = "done"
    /\ mg_merged.decisions # <<>>
    /\ mg_merged.action_items # <<>>
    /\ \E j \in 1..Len(WithinKept("action_items", "description")) :
          /\ RestatesLowered(WithinKept("action_items", "description")[j].description)
          /\ ~RestatesCased(WithinKept("action_items", "description")[j].description)
    /\ Len(mg_merged.ideas) < Len(WithinKept("ideas", "title"))

\* kept is the first occurrence of each distinct key of all, in order
FirstOfEachKey(kept, all, attr) ==
    kept = PicksOf(all, {j \in 1..Len(all) : \A i \in 1..(j - 1) : all[i][attr] # all[j][attr]})

\* Each key of all is the key of exactly one item of kept
OnePerKey(kept, all, attr) ==
    \A j \in 1..Len(all) :
        Cardinality({n \in 1..Len(kept) : kept[n][attr] = all[j][attr]}) = 1

\* C13: merge_results deduplicates concepts by name and terms by term with
\* exact, case-sensitive equality: the merged list holds exactly one item per
\* distinct key, the first occurrence in chunk order with its definition, and
\* items whose keys differ, even only in letter case, are all kept.
C13_ExactKeyDedup ==
    mg_pc = "done" =>
        /\ FirstOfEachKey(mg_merged.concepts, concat_lists(mg_results, "concepts"), "name")
        /\ OnePerKey(mg_merged.concepts, concat_lists(mg_results, "concepts"), "name")
        /\ FirstOfEachKey(mg_merged.terms, concat_lists(mg_results, "terms"), "term")
        /\ OnePerKey(mg_merged.terms, concat_lists(mg_results, "terms"), "term")

\* The merged concepts hold "API" and "api", and a later "API" with another
\* definition than the first was dropped.
C13_Witness ==
    /\ mg_pc = "done"
    /\ \E n, k \in 1..Len(mg_merged.concepts) :
          /\ mg_merged.concepts[n].name = Tapi
          /\ mg_merged.concepts[k].name = Wapi
    /\ \E i, j \in 1..Len(concat_lists(mg_results, "concepts")) :
          /\ i < j
          /\ concat_lists(mg_results, "concepts")[i].name = Tapi
          /\ concat_lists(mg_results, "concepts")[j].name = Tapi
          /\ concat_lists(mg_results, "concepts")[i].definition
                # concat_lists(mg_results, "concepts")[j].definition
          /\ \A n \in 1..Len(mg_merged.concepts) :
                mg_merged.concepts[n] # concat_lists(mg_results, "concepts")[j]

\* C14: the tldr of the merged record is the longest non-empty tldr of the
\* input records, the earliest in chunk order among those of maximal length,
\* and the empty string when every input tldr is empty.
C14_LongestTldr ==
    mg_pc = "done" =>
        IF \A n \in 1..Len(mg_results) : mg_results[n].tldr = <<>>
        THEN mg_merged.tldr = <<>>
        ELSE \E n \in 1..Len(mg_results) :
                /\ mg_merged.tldr = mg_results[n].tldr
                /\ mg_results[n].tldr # <<>>
                /\ \A k \in 1..Len(mg_results) : Len(mg_results[k].tldr) <= Len(mg_results[n].tldr)
                /\ \A k \in 1..(n - 1) : Len(mg_results[k].tldr) < Len(mg_results[n].tldr)

\* Two different tldrs share the maximal length and the earlier one was kept.
C14_Witness ==
    /\ mg_pc = "done"
    /\ \E n, k \in 1..Len(mg_results) :
          /\ n < k
          /\ Len(mg_results[n].tldr) = Len(mg_results[k].tldr)
          /\ mg_results[n].tldr # mg_results[k].tldr
          /\ mg_merged.tldr = mg_results[n].tldr
          /\ \E j \in 1..Len(mg_results) :
                mg_results[j].tldr # <<>> /\ Len(mg_results[j].tldr) < Len(mg_merged.tldr)

----------------------------------------------------------------------------
(* Claims about _rrf_merge and search_hybrid *)

\* The 1-based position of the item id in a ranked list, 0 when it is not in it
RankIn(list, id) ==
    IF \E n \in 1..Len(list) : list[n].id = id
    THEN CHOOSE n \in 1..Len(list) : list[n].id = id
    ELSE 0

\* The ids of a list of items, in order
IdsOf(list) == [n \in 1..Len(list) |-> list[n].id]

\* 1/(60 + rank) for a list that contains the id, 0 for one that does not
Reciprocal60(list, id) ==
    IF RankIn(list, id) = 0 THEN <<0, 1>> ELSE <<1, 60 + RankIn(list, id)>>

\* The lists passed to _rrf_merge
MergedLists == returned_lists(sh_kw, sh_vec)

\* The sum of the reciprocals of an id over the lists passed to _rrf_merge
FusedScore60(id) ==
    IF Len(MergedLists) = 0 THEN <<0, 1>>
    ELSE IF Len(MergedLists) = 1 THEN Reciprocal60(MergedLists[1], id)
    ELSE RatAdd(Reciprocal60(MergedLists[1], id), Reciprocal60(MergedLists[2], id))

OneSource == Cardinality({m \in 1..Len(MergedLists) : MergedLists[m] # <<>>}) = 1

\* The list of the one source that has items
TheSource == MergedLists[CHOOSE m \in 1..Len(MergedLists) : MergedLists[m] # <<>>]

C17_NativeScoresPassThrough ==
    (sh_pc = "merged" /\ Len(MergedLists) = 1) =>
        \A n \in 1..Len(sh_merged) :
            RatEq(sh_merged[n].rrf_score,
                  MergedLists[1][RankIn(MergedLists[1], sh_merged[n].id)].score)

\* The ids of the list search_hybrid returned
OutIds == IdsOf(sh_out.items)

\* C18: search_hybrid never raises because a search source failed: when the
\* vector search raises the result is the keyword results in their own
\* order, when the keyword search raises the result is the vector results,
\* and when every source fails or returns nothing the result is empty.
C18_SourceFailureContained ==
    sh_pc = "searched" =>
        /\ ~sh_out.raised
        /\ (sh_vec.kind = "raise" /\ sh_kw.kind = "ok") => OutIds = IdsOf(sh_kw.items)
        /\ (sh_kw.kind = "raise" /\ sh_vec.kind = "ok") => OutIds = IdsOf(sh_vec.items)
        /\ (sh_kw.items = <<>> /\ sh_vec.items = <<>>) => sh_out.items = <<>>

\* search_hybrid has returned the three keyword results in their order after
\* the vector search raised.
C18_Witness ==
    /\ sh_pc = "searched"
    /\ sh_vec.kind = "raise"
    /\ sh_kw.kind = "ok"
    /\ Len(sh_kw.items) = 3
    /\ OutIds = IdsOf(sh_kw.items)
    /\ OutIds # SortedSeq({OutIds[n] : n \in 1..3})

\* C19: the list search_hybrid returns has at most limit entries, holds each
\* item id at most once, is sorted by fused score in non-increasing order,
\* and is empty only if neither search returned a result.
C19_HybridOutput ==
    sh_pc = "searched" =>
        /\ Len(sh_out.items) <= sh_limit
        /\ \A i, j \in 1..Len(sh_out.items) : i # j => sh_out.items[i].id # sh_out.items[j].id
        /\ \A i, j \in 1..Len(sh_out.items) :
              i < j => ~RatLess(sh_out.items[i].rrf_score, sh_out.items[j].rrf_score)
        /\ sh_out.items = <<>> => (sh_kw.items = <<>> /\ sh_vec.items = <<>>)

\* search_hybrid has cut the fusion of two lists with more than limit
\* distinct items down to limit entries of decreasing score.
C19_Witness ==
    /\ sh_pc = "searched"
    /\ Len(sh_out.items) = sh_limit
    /\ sh_limit >= 2
    /\ Cardinality({sh_kw.items[n].id : n \in 1..Len(sh_kw.items)}
                   \cup {sh_vec.items[n].id : n \in 1..Len(sh_vec.items)}) > sh_limit
    /\ RatLess(sh_out.items[sh_limit].rrf_score, sh_out.items[1].rrf_score)

----------------------------------------------------------------------------
(* Claims about the effective chunk size *)

\* The chunk size that was explicitly configured: --chunk-size when given,
\* else MAX_CHUNK_SIZE
ExplicitChunkSize == IF cf_cli # 0 THEN cf_cli ELSE cf_env

\* The first tier of the table whose threshold exceeds the byte size
TierChunkSize(file_size) ==
    IF file_size < 1000000 THEN 12000
    ELSE IF file_size < 10000000 THEN 18000
    ELSE 24000

\* C20: when a chunk size was explicitly configured, through --chunk-size or
\* through MAX_CHUNK_SIZE, the effective chunk size of process_transcript is
\* that value for every source file size; otherwise it is the value of the
\* first tier whose threshold exceeds the source byte size.
C20_ExplicitChunkSizeWins ==
    cf_pc = "done" =>
        cf_effective = IF cf_cli # 0 \/ cf_env # 0
                       THEN ExplicitChunkSize
                       ELSE TierChunkSize(cf_file_size)

----------------------------------------------------------------------------
(* Claims about the embeddings *)

EmbeddingsOf(db, item_id, model) ==
    {e \in db.emb : e.item_id = item_id /\ e.model = model}

\* The last operation was a store_embeddings call that committed.
EmbeddingsStored == st_last = "store_embeddings" /\ ~st_emb.raised

\* C21: at most one embedding exists per (item_id, model) after any sequence
\* of store_embeddings calls: a repeated call for the same key replaces the
\* vector and leaves the embeddings of other models and other items as they
\* were; get_unembedded_items(model) returns exactly the items that have no
\* embedding for that model.
C21_EmbeddingUpsert ==
    /\ \A db \in Views : \A i \in {e.item_id : e \in db.emb}, m \in Models :
          Cardinality(EmbeddingsOf(db, i, m)) <= 1
    /\ EmbeddingsStored =>
          /\ \A i \in st_emb.ids :
                EmbeddingsOf(st_db, i, st_emb.model)
                    = {[item_id |-> i, model |-> st_emb.model,
                        embedding |-> st_emb.embedding]}
          /\ {e \in st_db.emb : ~(e.item_id \in st_emb.ids /\ e.model = st_emb.model)}
                = {e \in st_before.emb : ~(e.item_id \in st_emb.ids /\ e.model = st_emb.model)}
          /\ st_disk = st_db
    /\ \A db \in Views, m \in Models :
          {i.id : i \in get_unembedded_items(db, m)}
              = {i.id : i \in db.items} \ {e.item_id : e \in {x \in db.emb : x.model = m}}

\* store_embeddings was called again for an item that had another vector
\* for the model and a vector for the other model.
C21_Witness ==
    /\ EmbeddingsStored
    /\ \E i \in st_emb.ids :
          /\ \E e \in st_before.emb :
                e.item_id = i /\ e.model = st_emb.model /\ e.embedding # st_emb.embedding
          /\ \E e \in st_db.emb : e.item_id = i /\ e.model # st_emb.model
    /\ \E m \in Models : get_unembedded_items(st_db, m) # {}

----------------------------------------------------------------------------
(* Claims about the chunk loop and the chunk progress store *)

\* The run in progress or just ended went into the chunk loop.
PtChunked == PtRan /\ pt_run.mode = "chunked"

\* The index of the chunk given to the n-th call of the collaborator
LogIndex(n) ==
    CHOOSE k \in 0..(pt_run.total_chunks - 1) : pt_run.chunks[k + 1] = pt_log[n]

\* The row of the run's session and hash for chunk j
ProgressRows(j) ==
    {r \in KeyRows(cp_rows, pt_run.session_id, pt_run.file_hash) : r.chunk_index = j}

\* Chunk j was loaded from the stored progress, or was extracted and, with a
\* store attached, its result is the stored entry of index j.
ChunkSettled(j) ==
    /\ j < Len(pt_src)
    /\ \/ /\ pt_src[j + 1] = "resumed"
          /\ \E n \in 1..Len(pt_run.stored) :
                /\ pt_run.stored[n].chunk_index = j
                /\ pt_results[j + 1] = from_json(pt_run.stored[n].result_json)
       \/ /\ pt_src[j + 1] = "extracted"
          /\ has_store(pt_run) =>
                \E r \in ProgressRows(j) :
                    /\ from_json(r.result_json) = pt_results[j + 1]
                    /\ r.chunk_size = pt_run.chunk_size
                    /\ r.total_chunks = pt_run.total_chunks

\* C22: within one process_transcript run the collaborator is called for one
\* chunk at a time in increasing chunk index: when it is called for chunk i,
\* every chunk j < i was loaded from the stored progress or was extracted and
\* its result saved; no chunk is extracted twice in one run, and a loaded
\* chunk is not extracted.
C22_SequentialChunks ==
    PtChunked =>
        /\ Len(pt_log) = pt_calls
        /\ \A n \in 1..Len(pt_log) :
              \E k \in 0..(pt_run.total_chunks - 1) : pt_run.chunks[k + 1] = pt_log[n]
        /\ \A n \in 1..(Len(pt_log) - 1) : LogIndex(n) <= LogIndex(n + 1)
        /\ \A j \in 0..(pt_run.total_chunks - 1) :
              LET calls == {n \in 1..Len(pt_log) : LogIndex(n) = j}
              IN  /\ Cardinality(calls) <= pt_env.max_retries
                  /\ (j < Len(pt_src) /\ pt_src[j + 1] = "resumed") => calls = {}
                  /\ (j < Len(pt_src) /\ pt_src[j + 1] = "extracted") => calls # {}
        /\ (pt_log # <<>> /\ pt_pc # "returned") =>
              \A j \in 0..(LogIndex(Len(pt_log)) - 1) : ChunkSettled(j)

\* A run with a store, resumed after chunks 0 and 1 of 5 were saved, has
\* called the collaborator twice for chunk 2, once for chunk 3, and is at
\* chunk 4.
C22_Witness ==
    /\ PtChunked /\ PtResumed /\ has_store(pt_run)
    /\ pt_pc = "loop"
    /\ pt_run.total_chunks = 5
    /\ SavedIndexes = {0, 1}
    /\ Len(pt_log) = 3
    /\ LogIndex(1) = 2 /\ LogIndex(2) = 2 /\ LogIndex(3) = 3
    /\ pt_i = 4

\* The text whose hash is file_hash
TextOfHash(file_hash) ==
    (CHOOSE inv \in Invocations : inv.file_hash = file_hash).transcript

\* The chunk a stored entry is for
RowChunk(r) ==
    chunk_transcript(TextOfHash(r.file_hash), r.chunk_size, pt_env.chunk_overlap)[r.chunk_index + 1]

\* What the collaborator does for the chunk on its attempt-th call
Answer(chunk, attempt) == generate(pt_env.oracle, Pool, chunk, attempt)

\* The attempts, of the max_retries allowed, that return a record after
\* only rejected outputs
Accepted(chunk) ==
    {a \in 0..(pt_env.max_retries - 1) :
        /\ Answer(chunk, a).kind = "ok"
        /\ \A b \in 0..(a - 1) : Answer(chunk, b).kind = "unparseable"}

\* The extraction of the chunk finishes: no call raises before it ends.
ExtractionFinishes(chunk) ==
    \/ Accepted(chunk) # {}
    \/ \A a \in 0..(pt_env.max_retries - 1) : Answer(chunk, a).kind = "unparseable"

\* The result of the finished extraction of the chunk
CompleteResult(chunk) ==
    IF Accepted(chunk) # {}
    THEN Answer(chunk, CHOOSE a \in Accepted(chunk) : TRUE).data
    ELSE ExtractionResult

\* The entry process_transcript saves for chunk j of the run
SavedRow(j) ==
    [session_id |-> pt_run.session_id, file_hash |-> pt_run.file_hash,
     chunk_index |-> j, chunk_size |-> pt_run.chunk_size,
     total_chunks |-> pt_run.total_chunks, result_json |-> to_json(pt_results[j + 1])]

\* save_chunk_result raised for chunk pt_i.
SaveFailed == pt_pc = "store_error" /\ pt_i < pt_run.total_chunks

\* C23: in every reachable state, also after the process was killed or a
\* store method raised at any point of a run, each entry of the chunk
\* progress store holds the complete result of a chunk whose extraction had
\* finished; a failure while saving chunk i leaves the entries saved for the
\* chunks before i as they were and adds none.
C23_OnlyCompleteChunksStored ==
    /\ \A r \in cp_rows :
          /\ r.chunk_index \in 0..(r.total_chunks - 1)
          /\ r.total_chunks
                = Len(chunk_transcript(TextOfHash(r.file_hash), r.chunk_size,
                                       pt_env.chunk_overlap))
          /\ ExtractionFinishes(RowChunk(r))
          /\ r.result_json = to_json(CompleteResult(RowChunk(r)))
    /\ SaveFailed =>
          KeyRows(cp_rows, pt_run.session_id, pt_run.file_hash)
              = {SavedRow(j) : j \in 0..(pt_i - 1)}

\* save_chunk_result raised for chunk 2 after chunks 0 and 1 were saved, one
\* of them with the record of a second attempt.
C23_Witness ==
    /\ SaveFailed
    /\ pt_i = 2
    /\ Cardinality(KeyRows(cp_rows, pt_run.session_id, pt_run.file_hash)) = 2
    /\ \E r \in cp_rows :
          /\ r.result_json # to_json(ExtractionResult)
          /\ Answer(RowChunk(r), 0).kind = "unparseable"

\* C24: after any sequence of complete, interrupted and re-started runs
\* with any chunk sizes, all chunk progress entries that share a
\* (session_id, file_hash) agree on chunk_size and total_chunks, and a run
\* resumes exactly when every stored entry, not only the first, has the
\* run's total_chunks and chunk size.
C24_EntriesAgree ==
    /\ \A r1 \in cp_rows, r2 \in cp_rows :
          (r1.session_id = r2.session_id /\ r1.file_hash = r2.file_hash) =>
              (r1.chunk_size = r2.chunk_size /\ r1.total_chunks = r2.total_chunks)
    /\ (PtChunked /\ has_store(pt_run)) =>
          (pt_run.resumed <=>
              /\ pt_run.stored # <<>>
              /\ \A n \in 1..Len(pt_run.stored) :
                    /\ pt_run.stored[n].total_chunks = pt_run.total_chunks
                    /\ pt_run.stored[n].chunk_size = pt_run.chunk_size)

\* A run that found entries of another chunk size has saved two entries of
\* its own.
C24_Witness ==
    /\ PtChunked /\ has_store(pt_run) /\ ~pt_run.resumed
    /\ \E n \in 1..Len(pt_run.stored) : pt_run.stored[n].chunk_size # pt_run.chunk_size
    /\ Cardinality(KeyRows(cp_rows, pt_run.session_id, pt_run.file_hash)) >= 2

\* Chunk j of the run was extracted in this run with every attempt rejected.
ExhaustedHere(j) ==
    /\ j < Len(pt_src)
    /\ pt_src[j + 1] = "extracted"
    /\ \A a \in 0..(pt_env.max_retries - 1) :
          Answer(pt_run.chunks[j + 1], a).kind = "unparseable"

\* The stored progress the run started from has chunk j, whose every attempt
\* is rejected.
ExhaustedBefore(j) ==
    /\ j \in SavedIndexes
    /\ \A a \in 0..(pt_env.max_retries - 1) :
          Answer(pt_run.chunks[j + 1], a).kind = "unparseable"

FitsOneChunk ==
    /\ PtRan
    /\ pt_run.transcript # <<>>
    /\ Len(pt_run.transcript) <= pt_run.chunk_size

\* C26: when len(text) is at most the effective chunk size,
\* process_transcript does not read, write or clear the chunk progress
\* store: the entries an earlier interrupted multi-chunk run stored for the
\* session_id and file_hash are left as they were, and none is loaded.
C26_SingleChunkLeavesStore ==
    FitsOneChunk =>
        /\ cp_rows = pt_run.before
        /\ pt_completed = <<>>
        /\ \A n \in 1..Len(pt_src) : pt_src[n] = "extracted"
        /\ pt_run.total_chunks = 1

\* A run with a store has returned on the single chunk path while entries
\* of an interrupted multi-chunk run are stored for its session and hash.
C26_Witness ==
    /\ FitsOneChunk /\ has_store(pt_run) /\ pt_pc = "returned"
    /\ pt_run.stored # <<>>
    /\ KeyRows(cp_rows, pt_run.session_id, pt_run.file_hash) # {}
    /\ pt_src = <<"extracted">>

----------------------------------------------------------------------------
(* Claims about the batch extract flow *)

IndexFailures == {"report_failed", "upsert_failed"}

\* _batch_extract failed after process_transcript returned, and the store
\* was closed.
IndexFailed == bt_step = "closed" /\ bt_outcome \in IndexFailures

\* The batch run in progress is for the session and hash whose batch run
\* before it failed after process_transcript returned.
RunAfterIndexFailure ==
    /\ bt_step = "extract"
    /\ PtRan
    /\ bt_prev.outcome \in IndexFailures
    /\ bt_prev.session_id = pt_run.session_id
    /\ bt_prev.file_hash = pt_run.file_hash

\* The session is not indexed and has no chunk progress.
NothingKept ==
    /\ ~is_indexed(st_disk, pt_run.session_id, HashColumn(pt_run.file_hash))
    /\ KeyRows(cp_rows, pt_run.session_id, pt_run.file_hash) = {}

\* The run loads no stored result.
ExtractsEveryChunk ==
    /\ pt_run.stored = <<>>
    /\ ~pt_run.resumed
    /\ \A n \in 1..Len(pt_src) : pt_src[n] = "extracted"

----------------------------------------------------------------------------
(* Claims about the store after upsert_session *)

\* The last operation was an upsert_session call that committed.
UpsertCommitted == st_last = "upsert_session" /\ ~st_up.raised

\* C28: after every committed upsert_session, for any sequence of upserts of
\* any sessions, the set of rowids in items_fts equals the set of ids in
\* items: no keyword-index entry refers to a deleted item and every item has
\* exactly one keyword-index entry.
C28_KeywordIndexMatchesItems ==
    UpsertCommitted =>
        \A db \in Views :
            /\ {f.rowid : f \in db.fts} = {i.id : i \in db.items}
            /\ \A i \in db.items : Cardinality({f \in db.fts : f.rowid = i.id}) = 1

\* A session that had items with embeddings was indexed again with other
\* contents, and more items than before.
C28_Witness ==
    /\ UpsertCommitted /\ st_up.was_indexed
    /\ st_up.old_ids # {}
    /\ RecordKeys(st_up.result) # st_up.before_keys
    /\ st_up.old_embedded # {}
    /\ Cardinality(SessionItems(st_db, st_up.session_id)) > Cardinality(st_up.old_ids)

\* What the database holds for the sessions other than session_id: their
\* rows of sessions, their items, and the embeddings and keyword-index
\* entries of these items
OtherSessions(db, session_id) ==
    LET others == {i \in db.items : i.session_id # session_id}
        ids == {i.id : i \in others}
    IN  [sessions |-> {r \in db.sessions : r.id # session_id},
         items |-> others,
         emb |-> {e \in db.emb : e.item_id \in ids},
         fts |-> {f \in db.fts : f.rowid \in ids}]

\* C29: upsert_session(session_id, ...) leaves the items, embeddings,
\* keyword-index entries and session rows of every other session unchanged:
\* in the connection's view whether it commits or raises, and in the
\* committed database when the connection had nothing uncommitted.
C29_OtherSessionsUnchanged ==
    (st_last = "upsert_session") =>
        /\ OtherSessions(st_db, st_up.session_id)
              = OtherSessions(st_before, st_up.session_id)
        /\ st_up.clean =>
              OtherSessions(st_disk, st_up.session_id)
                  = OtherSessions(st_before, st_up.session_id)
        /\ \A f \in st_db.fts : \E i \in st_db.items : i.id = f.rowid
        /\ \A e \in st_db.emb : \E i \in st_db.items : i.id = e.item_id

\* A session was indexed while the other session had items with embeddings.
C29_Witness ==
    /\ UpsertCommitted /\ st_up.clean
    /\ SessionItems(st_db, st_up.session_id) # {}
    /\ OtherSessions(st_db, st_up.session_id).emb # {}
    /\ OtherSessions(st_db, st_up.session_id).fts # {}

\* The ids of the items that were in the database before the last
\* upsert_session call: those of every row committed until then, and those
\* of the rows the connection saw when it was called
EarlierIds == st_ever \cup {i.id : i \in st_before.items}

\* C30: item ids are never reused: after a session is re-indexed, every
\* item of that session has an id that no earlier item ever had, no
\* embedding stored for an earlier item is attached to any current item, and
\* all items of the re-indexed session are returned by
\* get_unembedded_items(model) for every model until store_embeddings is
\* called for them.
C30_ItemIdsNeverReused ==
    UpsertCommitted =>
        \A db \in Views :
            LET current == SessionItems(db, st_up.session_id)
            IN  /\ {i.id : i \in current} \cap EarlierIds = {}
                /\ {i.id : i \in current} \cap st_up.old_ids = {}
                /\ \A e \in db.emb :
                      /\ e.item_id \notin {i.id : i \in current}
                      /\ e.item_id \in EarlierIds => e \in st_before.emb
                /\ \A m \in Models : current \subseteq get_unembedded_items(db, m)
                /\ \A i \in db.items, j \in db.items : i.id = j.id => i = j

\* A session whose items had embeddings was indexed again with the same
\* contents; no embedding is left.
C30_Witness ==
    /\ UpsertCommitted /\ st_up.was_indexed
    /\ st_up.old_embedded # {}
    /\ st_up.old_embedded \subseteq st_ever
    /\ RecordKeys(st_up.result) = st_up.before_keys
    /\ SessionItems(st_db, st_up.session_id) # {}
    /\ st_db.emb = {}

====
